---- MODULE Spec2Model ----
(***************************************************************************)
(* Model of the ice-tray financial engine, src/lib/financial-model.ts      *)
(* (the variant with nonlinearity scanning, lines 226-580).                *)
(*                                                                         *)
(* Money, MoneyRate and Timestamp are JavaScript numbers in the source.    *)
(* The model computes with exact rationals <<numerator, denominator>> in   *)
(* lowest terms, so that the divisions of calculateNextNonlinearities and  *)
(* of the proportional drain split are computed and not assumed.           *)
(* Immutable.js maps are modelled with their insertion order, because the  *)
(* source iterates over them.                                              *)
(***************************************************************************)
EXTENDS Integers, Sequences, FiniteSets, TLC

(***************************************************************************)
(* Bounds of the model                                                     *)
(***************************************************************************)
MaxBatches == 5

MaxTime == 2

MaxAmount == 1

MaxRate == 2

AccountOrder == <<"a", "b", "c">>

AccountIds == {AccountOrder[i] : i \in DOMAIN AccountOrder}

(***************************************************************************)
(* Numbers                                                                 *)
(***************************************************************************)
Abs(x) == IF x < 0 THEN -x ELSE x

RECURSIVE GCD(_, _)
GCD(x, y) == IF y = 0 THEN x ELSE GCD(y, x % y)

Zero == <<0, 1>>

Infinity == <<1, 0>>

NegInfinity == <<-1, 0>>

NaN == <<0, 0>>

IsFinite(x) == x[2] # 0

Num(n) == <<n, 1>>

Rat(n, d) ==
  IF d = 1 THEN <<n, 1>>
  ELSE IF d = 0 THEN (IF n > 0 THEN Infinity ELSE IF n < 0 THEN NegInfinity ELSE NaN)
  ELSE LET s == IF d < 0 THEN -1 ELSE 1
           g == GCD(Abs(n), Abs(d))
       IN  <<(s * n) \div g, (s * d) \div g>>

RNeg(x) == <<-x[1], x[2]>>

\* Two infinities of the same sign add up to themselves, of opposite signs to NaN
RAdd(x, y) ==
  IF ~IsFinite(x) /\ ~IsFinite(y) THEN (IF x = y THEN x ELSE NaN)
  ELSE Rat(x[1] * y[2] + y[1] * x[2], x[2] * y[2])

RSub(x, y) == RAdd(x, RNeg(y))

RMul(x, y) == Rat(x[1] * y[1], x[2] * y[2])

RDiv(x, y) == Rat(x[1] * y[2], x[2] * y[1])

\* x < y as JavaScript compares numbers (any comparison with NaN is false)
RLt(x, y) ==
  IF x = NaN \/ y = NaN THEN FALSE
  ELSE IF IsFinite(x) /\ IsFinite(y) THEN x[1] * y[2] < y[1] * x[2]
  ELSE IF x = y THEN FALSE
  ELSE x = NegInfinity \/ y = Infinity

RLe(x, y) == IF x = NaN \/ y = NaN THEN FALSE ELSE x = y \/ RLt(x, y)

(***************************************************************************)
(* Immutable.js Map: the keys in insertion order and the value of each key *)
(***************************************************************************)
NoValues == [k \in {} |-> Zero]

EmptyMap == [keys |-> <<>>, val |-> NoValues]

MapHas(m, k) == k \in DOMAIN m.val

MapGet(m, k, notSet) == IF MapHas(m, k) THEN m.val[k] ELSE notSet

MapSet(m, k, v) ==
  [keys |-> IF MapHas(m, k) THEN m.keys ELSE Append(m.keys, k),
   val  |-> [x \in (DOMAIN m.val) \cup {k} |-> IF x = k THEN v ELSE m.val[x]]]

RECURSIVE SumOver(_, _)
SumOver(m, keys) ==
  IF keys = <<>> THEN Zero ELSE RAdd(m.val[Head(keys)], SumOver(m, Tail(keys)))

\* map.reduce((a, x) => a + x, 0)
MapSum(m) == SumOver(m, m.keys)

(***************************************************************************)
(* Account records                                                         *)
(***************************************************************************)
Undefined == "undefined"

\* AccountState(): the defaults of the record, lines 250-261
emptyAccount ==
  [isRecord            |-> TRUE,
   accountId           |-> "",
   capacity            |-> Zero,
   fillLevel           |-> Zero,
   fillRate            |-> Zero,
   overflowTargetId    |-> Undefined,
   overflowRate        |-> Zero,
   drainSizes          |-> EmptyMap,
   drainEffectiveRates |-> EmptyMap,
   drainInflows        |-> EmptyMap,
   overflowInflows     |-> EmptyMap]

\* What Immutable's setIn creates for a key path whose first key is missing:
\* a plain Map, not an AccountState record.  Property reads on it
\* (account.fillLevel, account.drainInflows, ...) give undefined.
plainMap == [emptyAccount EXCEPT !.isRecord = FALSE]

noAccounts == EmptyMap

(***************************************************************************)
(* User actions (src/unnamed/part_002, lines 13-49).  An optional property *)
(* of an action is modelled by a has... flag and a value.                  *)
(***************************************************************************)
CreateOrUpdateAccount(id, hasCap, cap, hasTarget, target) ==
  [type |-> "CreateOrUpdateAccount", accountId |-> id,
   hasCapacity |-> hasCap, capacity |-> cap,
   hasOverflowTargetId |-> hasTarget, overflowTargetId |-> target]

InjectMoney(id, amount) ==
  [type |-> "InjectMoney", accountId |-> id, amount |-> amount]

UpdateDrain(source, target, maxRate) ==
  [type |-> "UpdateDrain", sourceAccountId |-> source,
   targetAccountId |-> target, maxRate |-> maxRate]

DeleteDrain(source, target) ==
  [type |-> "DeleteDrain", sourceAccountId |-> source, targetAccountId |-> target]

DeleteAccount(id) == [type |-> "DeleteAccount", accountId |-> id]

(***************************************************************************)
(* Action applicator.  Every operator returns the new accounts map, the    *)
(* dirtyAccounts array after its pushes, and whether it threw.             *)
(***************************************************************************)
Applied(accounts, dirtyAccounts) ==
  [accounts |-> accounts, dirtyAccounts |-> dirtyAccounts, threw |-> FALSE]

Thrown(accounts, dirtyAccounts) ==
  [accounts |-> accounts, dirtyAccounts |-> dirtyAccounts, threw |-> TRUE]

\* account.set('accountId', ...) when the stored id differs
WithAccountId(account, id) ==
  IF account.accountId # id THEN [account EXCEPT !.accountId = id] ELSE account

\* A faulty deleteDrain: the source is not marked dirty
deleteDrainNotDirty(accounts, action, dirtyAccounts) ==
  LET source == action.sourceAccountId
      old    == MapGet(accounts, source, plainMap)
  IN  Applied(MapSet(accounts, source,
                [old EXCEPT !.drainSizes = MapSet(@, action.targetAccountId, Zero)]),
              dirtyAccounts)

deleteDrain(accounts, action, dirtyAccounts) ==
  LET source == action.sourceAccountId
      old    == MapGet(accounts, source, plainMap)
  IN  Applied(MapSet(accounts, source,
                [old EXCEPT !.drainSizes = MapSet(@, action.targetAccountId, Zero)]),
              Append(dirtyAccounts, source))

\* A faulty injectMoney: the balance is clamped at zero
injectMoneyClamped(accounts, action, dirtyAccounts) ==
  LET accountId == action.accountId
      account   == WithAccountId(MapGet(accounts, accountId, emptyAccount), accountId)
      sum       == RAdd(account.fillLevel, action.amount)
  IN  Applied(MapSet(accounts, accountId,
                [account EXCEPT !.fillLevel = IF RLt(sum, Zero) THEN Zero ELSE sum]),
              Append(dirtyAccounts, accountId))

injectMoney(accounts, action, dirtyAccounts) ==
  LET accountId == action.accountId
      account   == WithAccountId(MapGet(accounts, accountId, emptyAccount), accountId)
  IN  Applied(MapSet(accounts, accountId,
                [account EXCEPT !.fillLevel = RAdd(@, action.amount)]),
              Append(dirtyAccounts, accountId))

\* A faulty updateDrain: the source is not marked dirty
updateDrainNotDirty(accounts, action, dirtyAccounts) ==
  LET source        == action.sourceAccountId
      sourceAccount == WithAccountId(MapGet(accounts, source, emptyAccount), source)
  IN  Applied(MapSet(accounts, source,
                [sourceAccount EXCEPT
                   !.drainSizes = MapSet(@, action.targetAccountId, action.maxRate)]),
              dirtyAccounts)

\* A faulty updateDrain: the target account is stored as well
updateDrainStoresTarget(accounts, action, dirtyAccounts) ==
  LET source        == action.sourceAccountId
      target        == action.targetAccountId
      sourceAccount == WithAccountId(MapGet(accounts, source, emptyAccount), source)
      targetAccount == WithAccountId(MapGet(accounts, target, emptyAccount), target)
  IN  Applied(MapSet(MapSet(accounts, target, targetAccount), source,
                [sourceAccount EXCEPT
                   !.drainSizes = MapSet(@, target, action.maxRate)]),
              Append(dirtyAccounts, source))

updateDrain(accounts, action, dirtyAccounts) ==
  LET source        == action.sourceAccountId
      sourceAccount == WithAccountId(MapGet(accounts, source, emptyAccount), source)
  IN  Applied(MapSet(accounts, source,
                [sourceAccount EXCEPT
                   !.drainSizes = MapSet(@, action.targetAccountId, action.maxRate)]),
              Append(dirtyAccounts, source))

\* A faulty createOrUpdateAccount: the record is built anew from the defaults
\* instead of from the stored account
createOrUpdateAccountAnew(accounts, action, dirtyAccounts) ==
  LET accountId   == action.accountId
      account0    == WithAccountId(emptyAccount, accountId)
      account1    == IF action.hasCapacity
                     THEN [account0 EXCEPT !.capacity = action.capacity]
                     ELSE account0
      account2    == IF action.hasOverflowTargetId
                     THEN [account1 EXCEPT !.overflowTargetId = action.overflowTargetId]
                     ELSE account1
  IN  Applied(MapSet(accounts, accountId, account2), Append(dirtyAccounts, accountId))

createOrUpdateAccount(accounts, action, dirtyAccounts) ==
  LET accountId == action.accountId
      account0  == WithAccountId(MapGet(accounts, accountId, emptyAccount), accountId)
      account1  == IF action.hasCapacity
                   THEN [account0 EXCEPT !.capacity = action.capacity]
                   ELSE account0
      retarget  == action.hasOverflowTargetId
                   /\ action.overflowTargetId # account1.overflowTargetId
      previousOverflowTargetId == account1.overflowTargetId
      \* Disconnect the old overflow target
      accounts1 == IF retarget /\ previousOverflowTargetId # Undefined
                   THEN MapSet(accounts, previousOverflowTargetId,
                          [MapGet(accounts, previousOverflowTargetId, emptyAccount)
                             EXCEPT !.overflowInflows = MapSet(@, accountId, Zero)])
                   ELSE accounts
      account2  == IF retarget
                   THEN [account1 EXCEPT !.overflowTargetId = action.overflowTargetId]
                   ELSE account1
  IN  Applied(MapSet(accounts1, accountId, account2), Append(dirtyAccounts, accountId))

dispatchAction(accounts, action, dirtyAccounts) ==
  CASE action.type = "CreateOrUpdateAccount" ->
         createOrUpdateAccount(accounts, action, dirtyAccounts)
    [] action.type = "InjectMoney" -> injectMoney(accounts, action, dirtyAccounts)
    [] action.type = "UpdateDrain" -> updateDrain(accounts, action, dirtyAccounts)
    [] action.type = "DeleteDrain" -> deleteDrain(accounts, action, dirtyAccounts)
    [] action.type = "DeleteAccount" -> Thrown(accounts, dirtyAccounts)

RECURSIVE ApplyFrom(_, _, _)
ApplyFrom(accounts, actions, dirtyAccounts) ==
  IF actions = <<>> THEN Applied(accounts, dirtyAccounts)
  ELSE LET r == dispatchAction(accounts, Head(actions), dirtyAccounts)
       IN  IF r.threw THEN r ELSE ApplyFrom(r.accounts, Tail(actions), r.dirtyAccounts)

applyActions(accounts, actionGroup, dirtyAccounts) ==
  ApplyFrom(accounts, actionGroup.actions, dirtyAccounts)

(***************************************************************************)
(* Rate relaxation: updateTransients, lines 484-580                        *)
(***************************************************************************)
\* A faulty SetDrainInflow: the entry is stored under the id of the target
SetDrainInflowUnderTarget(accounts, targetAccountId, accountId, rate) ==
  LET old == MapGet(accounts, targetAccountId, plainMap)
  IN  MapSet(accounts, targetAccountId,
        [old EXCEPT !.drainInflows = MapSet(@, targetAccountId, rate)])

\* accounts.setIn([targetAccountId, 'drainInflows', accountId], rate): a
\* missing target is created as a plain Map
SetDrainInflow(accounts, targetAccountId, accountId, rate) ==
  LET old == MapGet(accounts, targetAccountId, plainMap)
  IN  MapSet(accounts, targetAccountId,
        [old EXCEPT !.drainInflows = MapSet(@, accountId, rate)])

\* A faulty RunDrainsAtFullCapacity: the balance of the account is ignored
RunDrainsOnInflowOnly(account, effectiveInflowRate, totalPotentialDrainRate) ==
  RLe(totalPotentialDrainRate, effectiveInflowRate)

\* Line 510 with > for >=: an inflow that equals the total drain size counts
\* as limiting
RunDrainsAtFullCapacityStrict(account, effectiveInflowRate, totalPotentialDrainRate) ==
  RLt(Zero, account.fillLevel) \/ RLt(totalPotentialDrainRate, effectiveInflowRate)

\* Lines 510 and 523: run the drains at full capacity?
RunDrainsAtFullCapacity(account, effectiveInflowRate, totalPotentialDrainRate) ==
  RLt(Zero, account.fillLevel) \/ RLe(totalPotentialDrainRate, effectiveInflowRate)

\* Lines 517 and 530: the rate a drain is set to
IntendedRate(full, potentialRate, effectiveInflowRate, totalPotentialDrainRate) ==
  IF full THEN potentialRate
  ELSE RDiv(RMul(effectiveInflowRate, potentialRate), totalPotentialDrainRate)

\* The two for-loops over account.drainSizes, lines 514-522 and 527-537.
\* st = [account, accounts, dirtyAccounts, accountChanged]
RECURSIVE DrainLoop(_, _, _, _, _, _, _)
DrainLoop(targets, drainSizes, drainEffectiveRates, accountId, full, inflow, st) ==
  IF targets = <<>> THEN st
  ELSE
    LET targetAccountId == Head(targets)
        potentialRate   == drainSizes.val[targetAccountId]
        effectiveRate   == MapGet(drainEffectiveRates, targetAccountId, Zero)
        intendedRate    == IntendedRate(full, potentialRate, inflow, MapSum(drainSizes))
        st1 == IF effectiveRate # intendedRate
               THEN [account        |-> [st.account EXCEPT !.drainEffectiveRates =
                                           MapSet(@, targetAccountId, intendedRate)],
                     accounts       |-> SetDrainInflow(st.accounts, targetAccountId,
                                                       accountId, intendedRate),
                     dirtyAccounts  |-> Append(st.dirtyAccounts, targetAccountId),
                     accountChanged |-> TRUE]
               ELSE st
    IN  DrainLoop(Tail(targets), drainSizes, drainEffectiveRates, accountId,
                  full, inflow, st1)

\* A faulty fill rate: an account at its capacity stops filling whether or
\* not it has an overflow target
FillAndOverflowRateCapped(account, potentialFillRate) ==
  IF RLt(Zero, potentialFillRate) /\ RLt(account.fillLevel, account.capacity)
  THEN [fillRate |-> potentialFillRate, overflowRate |-> Zero]
  ELSE IF RLt(potentialFillRate, Zero)
  THEN [fillRate |-> potentialFillRate, overflowRate |-> Zero]
  ELSE [fillRate |-> Zero, overflowRate |-> potentialFillRate]

\* Lines 543-558: the fill rate and the overflow rate of an account
FillAndOverflowRate(account, potentialFillRate) ==
  IF RLt(Zero, potentialFillRate)
     /\ (RLt(account.fillLevel, account.capacity) \/ account.overflowTargetId = Undefined)
  THEN [fillRate |-> potentialFillRate, overflowRate |-> Zero]
  ELSE IF RLt(potentialFillRate, Zero)
  THEN [fillRate |-> potentialFillRate, overflowRate |-> Zero]
  ELSE [fillRate |-> Zero, overflowRate |-> potentialFillRate]

\* Lines 568-571: accounts.set(overflowTargetId, ...) is called on the
\* immutable map and its result is dropped, so the map is left as it was.
PropagateOverflowRate(accounts, overflowTargetId, accountId, overflowRate) ==
  accounts

\* A faulty once-off overflow: the overflow target is not marked dirty
OnceOffOverflowNotDirty(accounts, account, dirtyAccounts) ==
  LET overflowTargetId == account.overflowTargetId
  IN  IF RLe(account.capacity, account.fillLevel) /\ overflowTargetId # Undefined
      THEN LET overflowAmount  == RSub(account.fillLevel, account.capacity)
               overflowAccount == MapGet(accounts, overflowTargetId, emptyAccount)
           IN  [account        |-> [account EXCEPT !.fillLevel = account.capacity],
                accounts       |-> MapSet(accounts, overflowTargetId,
                                     [overflowAccount EXCEPT
                                        !.fillLevel = RAdd(@, overflowAmount)]),
                dirtyAccounts  |-> dirtyAccounts,
                accountChanged |-> TRUE]
      ELSE [account |-> account, accounts |-> accounts,
            dirtyAccounts |-> dirtyAccounts, accountChanged |-> FALSE]

\* A faulty once-off overflow: the account itself is marked dirty instead of
\* its overflow target
OnceOffOverflowDirtiesSelf(accounts, account, dirtyAccounts) ==
  LET overflowTargetId == account.overflowTargetId
  IN  IF RLe(account.capacity, account.fillLevel) /\ overflowTargetId # Undefined
      THEN LET overflowAmount  == RSub(account.fillLevel, account.capacity)
               overflowAccount == MapGet(accounts, overflowTargetId, emptyAccount)
           IN  [account        |-> [account EXCEPT !.fillLevel = account.capacity],
                accounts       |-> MapSet(accounts, overflowTargetId,
                                     [overflowAccount EXCEPT
                                        !.fillLevel = RAdd(@, overflowAmount)]),
                dirtyAccounts  |-> Append(dirtyAccounts, account.accountId),
                accountChanged |-> TRUE]
      ELSE [account |-> account, accounts |-> accounts,
            dirtyAccounts |-> dirtyAccounts, accountChanged |-> FALSE]

\* Lines 492-500: the once-off overflow of the account into its target
OnceOffOverflow(accounts, account, dirtyAccounts) ==
  LET overflowTargetId == account.overflowTargetId
  IN  IF RLe(account.capacity, account.fillLevel) /\ overflowTargetId # Undefined
      THEN LET overflowAmount  == RSub(account.fillLevel, account.capacity)
               overflowAccount == MapGet(accounts, overflowTargetId, emptyAccount)
           IN  [account        |-> [account EXCEPT !.fillLevel = account.capacity],
                accounts       |-> MapSet(accounts, overflowTargetId,
                                     [overflowAccount EXCEPT
                                        !.fillLevel = RAdd(@, overflowAmount)]),
                dirtyAccounts  |-> Append(dirtyAccounts, overflowTargetId),
                accountChanged |-> TRUE]
      ELSE [account |-> account, accounts |-> accounts,
            dirtyAccounts |-> dirtyAccounts, accountChanged |-> FALSE]

\* Line 525 left out: the drains limited by the inflow are still counted at
\* their full size in the fill rate
DrainsAtFullSize(st, accountId, effectiveInflowRate, totalPotentialDrainRate) ==
  LET full == RunDrainsAtFullCapacity(st.account, effectiveInflowRate,
                                      totalPotentialDrainRate)
  IN  [st |-> DrainLoop(st.account.drainSizes.keys, st.account.drainSizes,
                        st.account.drainEffectiveRates, accountId, full,
                        effectiveInflowRate, st),
       potentialFillRate |-> RSub(effectiveInflowRate, totalPotentialDrainRate)]

\* Lines 507-539: the drains of the account and the fill rate it would have,
\* for the inflow and the total drain size of lines 502-508.  st is the
\* result of OnceOffOverflow.
DrainsAt(st, accountId, effectiveInflowRate, totalPotentialDrainRate) ==
  LET full == RunDrainsAtFullCapacity(st.account, effectiveInflowRate,
                                      totalPotentialDrainRate)
      effectiveDrainRate == IF full THEN totalPotentialDrainRate
                            ELSE effectiveInflowRate
  IN  [st |-> DrainLoop(st.account.drainSizes.keys, st.account.drainSizes,
                        st.account.drainEffectiveRates, accountId, full,
                        effectiveInflowRate, st),
       potentialFillRate |-> RSub(effectiveInflowRate, effectiveDrainRate)]

\* Lines 502-539
DrainsAndFillRate(st, accountId) ==
  DrainsAt(st, accountId,
           RAdd(MapSum(st.account.drainInflows), MapSum(st.account.overflowInflows)),
           MapSum(st.account.drainSizes))

\* Lines 560-576: the fill rate and the overflow rate are set and the account
\* is stored.  st is the result of DrainLoop.
StoreRates(st, accountId, overflowTargetId, rates) ==
  LET fillRateChanged     == st.account.fillRate # rates.fillRate
      overflowRateChanged == st.account.overflowRate # rates.overflowRate
      account  == [st.account EXCEPT !.fillRate = rates.fillRate,
                                     !.overflowRate = rates.overflowRate]
      accounts == IF overflowRateChanged /\ overflowTargetId # Undefined
                  THEN PropagateOverflowRate(st.accounts, overflowTargetId,
                                             accountId, rates.overflowRate)
                  ELSE st.accounts
      accountChanged == st.accountChanged \/ fillRateChanged \/ overflowRateChanged
  IN  Applied(IF accountChanged THEN MapSet(accounts, accountId, account)
              ELSE accounts,
              st.dirtyAccounts)

\* Lines 540-576.  r is the result of DrainsAndFillRate.
SetRatesAndStore(r, accountId, overflowTargetId) ==
  StoreRates(r.st, accountId, overflowTargetId,
             FillAndOverflowRate(r.st.account, r.potentialFillRate))

\* One iteration of the while loop, lines 486-576
UpdateTransientsOf(accounts, dirtyAccounts) ==
  LET accountId == Head(dirtyAccounts)
      account   == MapGet(accounts, accountId, emptyAccount)
  IN  IF ~account.isRecord
      THEN \* account.drainInflows is undefined on a plain Map: .reduce throws
           Thrown(accounts, Tail(dirtyAccounts))
      ELSE SetRatesAndStore(
             DrainsAndFillRate(
               OnceOffOverflow(accounts, account, Tail(dirtyAccounts)), accountId),
             accountId, account.overflowTargetId)

\* The loop as a do-while: with nothing dirty the body still runs once, and
\* dirtyAccounts.shift() || unexpected() of line 486 throws
RECURSIVE updateTransientsDoWhile(_, _)
updateTransientsDoWhile(accounts, dirtyAccounts) ==
  IF dirtyAccounts = <<>> THEN Thrown(accounts, dirtyAccounts)
  ELSE LET r == UpdateTransientsOf(accounts, dirtyAccounts)
       IN  IF r.threw \/ r.dirtyAccounts = <<>> THEN r
           ELSE updateTransientsDoWhile(r.accounts, r.dirtyAccounts)

RECURSIVE updateTransients(_, _)
updateTransients(accounts, dirtyAccounts) ==
  IF dirtyAccounts = <<>> THEN Applied(accounts, dirtyAccounts)
  ELSE LET r == UpdateTransientsOf(accounts, dirtyAccounts)
       IN  IF r.threw THEN r ELSE updateTransients(r.accounts, r.dirtyAccounts)

(***************************************************************************)
(* Linear projection and nonlinearity scanning, lines 332-412              *)
(***************************************************************************)
HistorySnapshot(timestamp, accounts) == [timestamp |-> timestamp, accounts |-> accounts]

RECURSIVE ProjectAccounts(_, _, _)
ProjectAccounts(accounts, toIterate, deltaTime) ==
  IF toIterate = <<>> THEN accounts
  ELSE LET accountId == Head(toIterate)
           account   == accounts.val[accountId]
           next == IF account.fillRate # Zero
                   THEN MapSet(accounts, accountId,
                          [account EXCEPT
                             !.fillLevel = RAdd(@, RMul(account.fillRate, deltaTime))])
                   ELSE accounts
       IN  ProjectAccounts(next, Tail(toIterate), deltaTime)

\* Line 360 without the subtraction: the time since the epoch is taken for
\* the time since the snapshot
projectLinearSinceEpoch(state, timestamp) ==
  HistorySnapshot(timestamp,
    ProjectAccounts(state.accounts, state.accounts.keys, timestamp))

projectLinear(state, timestamp) ==
  LET deltaTime == RSub(timestamp, state.timestamp)
  IN  HistorySnapshot(timestamp,
        ProjectAccounts(state.accounts, state.accounts.keys, deltaTime))

\* The modifiers of a nonlinearity: force the fill level to the exact trigger
Modify(modifier, account) ==
  IF modifier = "full" THEN [account EXCEPT !.fillLevel = account.capacity]
  ELSE [account EXCEPT !.fillLevel = Zero]

\* Lines 403-411 without the branch for equal timestamps: a crossing at the
\* earliest instant replaces the ones already found for that instant
EarliestWithoutTies(earliestNonlinearities, timestamp, nonlinearity) ==
  IF RLe(timestamp, earliestNonlinearities.timestamp)
  THEN [timestamp |-> timestamp, accounts |-> <<nonlinearity>>]
  ELSE earliestNonlinearities

\* The local function nonlinearity(timestamp, nonlinearity), lines 403-411
Earliest(earliestNonlinearities, timestamp, nonlinearity) ==
  IF RLe(timestamp, earliestNonlinearities.timestamp)
  THEN IF timestamp = earliestNonlinearities.timestamp
       THEN [earliestNonlinearities EXCEPT !.accounts = Append(@, nonlinearity)]
       ELSE [timestamp |-> timestamp, accounts |-> <<nonlinearity>>]
  ELSE earliestNonlinearities

\* Line 383 with <= for <: an account already at its capacity still crosses
FillsUpAtCapacity(account) ==
  RLt(Zero, account.fillRate) /\ RLe(account.fillLevel, account.capacity)

\* Lines 383 and 392: the conditions under which an account has a crossing
FillsUp(account) ==
  RLt(Zero, account.fillRate) /\ RLt(account.fillLevel, account.capacity)

\* Lines 391-398 left out: an emptying account is not a crossing
EmptiesUnscanned(account) == FALSE

Empties(account) ==
  RLt(account.fillRate, Zero) /\ RLt(Zero, account.fillLevel)

RECURSIVE ScanAccounts(_, _, _)
ScanAccounts(state, toIterate, earliestNonlinearities) ==
  IF toIterate = <<>> THEN earliestNonlinearities
  ELSE
    LET accountId == Head(toIterate)
        account   == state.accounts.val[accountId]
        e1 == IF FillsUp(account)
              THEN Earliest(earliestNonlinearities,
                     RAdd(state.timestamp,
                          RDiv(RSub(account.capacity, account.fillLevel),
                               account.fillRate)),
                     [accountId |-> accountId, modifier |-> "full"])
              ELSE earliestNonlinearities
        e2 == IF Empties(account)
              THEN Earliest(e1,
                     RAdd(state.timestamp,
                          RDiv(account.fillLevel, RNeg(account.fillRate))),
                     [accountId |-> accountId, modifier |-> "empty"])
              ELSE e1
    IN  ScanAccounts(state, Tail(toIterate), e2)

calculateNextNonlinearities(state) ==
  ScanAccounts(state, state.accounts.keys,
               [timestamp |-> Infinity, accounts |-> <<>>])

\* Line 335 with <= for <: a crossing at the target timestamp is yielded too
HasIntermediateUpTo(state, targetTimestamp) ==
  /\ calculateNextNonlinearities(state).timestamp # Infinity
  /\ RLe(calculateNextNonlinearities(state).timestamp, targetTimestamp)

\* Line 335: the condition of the while loop of computeIntermediateStates
HasIntermediate(state, targetTimestamp) ==
  RLt(calculateNextNonlinearities(state).timestamp, targetTimestamp)

RECURSIVE ApplyModifiers(_, _, _)
ApplyModifiers(accounts, nonlinearities, dirtyAccounts) ==
  IF nonlinearities = <<>> THEN Applied(accounts, dirtyAccounts)
  ELSE LET n == Head(nonlinearities)
       IN  ApplyModifiers(
             MapSet(accounts, n.accountId, Modify(n.modifier, accounts.val[n.accountId])),
             Tail(nonlinearities),
             Append(dirtyAccounts, n.accountId))

\* The body of the while loop, lines 336-345: the snapshot it yields
IntermediateState(state) ==
  LET nextNonlinearities == calculateNextNonlinearities(state)
      projected == projectLinear(state, nextNonlinearities.timestamp)
      modified  == ApplyModifiers(projected.accounts, nextNonlinearities.accounts, <<>>)
      relaxed   == updateTransients(modified.accounts, modified.dirtyAccounts)
  IN  [state |-> HistorySnapshot(projected.timestamp, relaxed.accounts),
       threw |-> relaxed.threw]

(***************************************************************************)
(* Inputs: the action groups computeFinancialHistory is called with        *)
(***************************************************************************)
Timestamps == {Num(t) : t \in 0..MaxTime}

Amounts == {Num(n) : n \in (-MaxAmount..MaxAmount) \ {0}}

Capacities == {Num(n) : n \in 0..MaxAmount}

Rates == {Num(n) : n \in 1..MaxRate}

\* The edges the inputs may create: money flows from an account to the next
\* one of AccountOrder, so that every input is acyclic
FlowPairs ==
  {<<AccountOrder[i], AccountOrder[i + 1]>> : i \in 1..(Len(AccountOrder) - 1)}

UserActions ==
  {CreateOrUpdateAccount(id, FALSE, Zero, FALSE, Undefined) : id \in AccountIds}
  \cup {CreateOrUpdateAccount(x[1], TRUE, cap, TRUE, x[2]) :
          x \in FlowPairs, cap \in Capacities}
  \cup {CreateOrUpdateAccount(x[1], FALSE, Zero, TRUE, Undefined) : x \in FlowPairs}
  \cup {InjectMoney(id, amount) : id \in AccountIds, amount \in Amounts}
  \cup {UpdateDrain(x[1], x[2], rate) : x \in FlowPairs, rate \in Rates}
  \cup {DeleteDrain(x[1], x[2]) : x \in FlowPairs}
  \cup {DeleteAccount(AccountOrder[1])}

ActionGroups(timestamp) ==
  {[timestamp |-> timestamp, actions |-> <<x>>] : x \in UserActions}

(***************************************************************************)
(* Bookkeeping about the input, not part of the program                    *)
(***************************************************************************)
RECURSIVE InjectedBy(_)
InjectedBy(actions) ==
  IF actions = <<>> THEN Zero
  ELSE RAdd(IF Head(actions).type = "InjectMoney" THEN Head(actions).amount ELSE Zero,
            InjectedBy(Tail(actions)))

\* Some InjectMoney of the list takes a balance below zero when it is applied
RECURSIVE Overdraws(_, _)
Overdraws(accounts, actions) ==
  IF actions = <<>> THEN FALSE
  ELSE LET r == dispatchAction(accounts, Head(actions), <<>>)
       IN  \/ /\ Head(actions).type = "InjectMoney"
              /\ RLt(r.accounts.val[Head(actions).accountId].fillLevel, Zero)
           \/ /\ ~r.threw
              /\ Overdraws(r.accounts, Tail(actions))

\* The inputs the engine is specified for (lines 305-307): no InjectMoney
\* takes more out of an account than it holds.  The graph has no cycle, as
\* every edge of FlowPairs leads to a later account of AccountOrder, and the
\* rates and capacities are non-negative by the choice of Rates and Capacities.
WellFormed(accounts, actionGroup) == ~Overdraws(accounts, actionGroup.actions)

(***************************************************************************)
(* computeFinancialHistory, lines 304-330                                  *)
(***************************************************************************)
VARIABLES
  pc,               \* where computeFinancialHistory is
  state,            \* let state: HistorySnapshot
  targetTimestamp,  \* the timestamp computeIntermediateStates scans up to
  pushed,           \* history.size
  processed,        \* how many action groups the for loop has gone through
  injected,         \* bookkeeping: the sum of the amounts of the InjectMoney applied
  inputActions,     \* the argument of a call of computeFinancialHistory as a whole
  returned,         \* what that call gave back
  relaxing,         \* the accounts and dirtyAccounts of a call of updateTransients
  pops,             \* how many times the while loop of that call has run
  given             \* the arguments that call was made with

vars == <<pc, state, targetTimestamp, pushed, processed, injected,
          inputActions, returned, relaxing, pops, given>>

\* The variables that follow a call of updateTransients step by step
relaxVars == <<relaxing, pops, given>>

\* updateTransients is not followed step by step
NotRelaxing == [accounts |-> noAccounts, dirtyAccounts |-> <<>>, threw |-> FALSE]

\* No call has been made
NotCalled == [outcome |-> "pending"]

\* The list of snapshots is only appended to and never read by the source,
\* and every snapshot is pushed right when it is assigned to state (lines
\* 316-317, 323, 343-344): the model keeps the size of the list, and the
\* last entry of the list is state.
history == IF pushed = 0 THEN <<>> ELSE <<state>>

Init ==
  /\ pc = "loop"
  /\ state = HistorySnapshot(NegInfinity, noAccounts)
  /\ targetTimestamp = NegInfinity
  /\ pushed = 0
  /\ processed = 0
  /\ injected = Zero
  /\ inputActions = <<>>
  /\ returned = NotCalled
  /\ relaxing = NotRelaxing
  /\ pops = 0
  /\ given = NotRelaxing

\* The timestamps the next action group of the sorted input can have (line
\* 312), or the timestamp of the group whose iteration has begun
GroupTimestamps ==
  IF pc = "loop"
  THEN {t \in Timestamps : processed < MaxBatches /\ RLe(state.timestamp, t)}
  ELSE IF pc = "intermediate" THEN {targetTimestamp}
  ELSE {}

\* Lines 315-318: one snapshot yielded by computeIntermediateStates on the
\* way to the timestamp of the action group
Intermediate ==
  /\ \E t \in GroupTimestamps :
       /\ HasIntermediate(state, t)
       /\ targetTimestamp' = t
  /\ state' = IntermediateState(state).state
  /\ pushed' = pushed + 1
  /\ pc' = "intermediate"
  /\ UNCHANGED <<processed, injected, inputActions, returned, relaxVars>>

\* Line 322: updateTransients on what applyActions returned, unless it threw
Relaxed(applied) ==
  IF applied.threw THEN applied
  ELSE updateTransients(applied.accounts, applied.dirtyAccounts)

\* Lines 321-323: the snapshot of the action group is pushed, unless applying
\* or relaxing it threw.  relaxed is the result of lines 321-322.
PushSnapshot(actionGroup, relaxed) ==
  IF relaxed.threw
  THEN /\ pc' = "threw"
       /\ UNCHANGED <<state, pushed, injected>>
  ELSE /\ pc' = "loop"
       /\ state' = HistorySnapshot(actionGroup.timestamp, relaxed.accounts)
       /\ pushed' = pushed + 1
       /\ injected' = RAdd(injected, InjectedBy(actionGroup.actions))

\* Lines 319-323 for the action groups of one timestamp.  projected is the
\* result of line 320.
ApplyOneOf(actionGroups, projected) ==
  \E actionGroup \in actionGroups :
    /\ WellFormed(projected.accounts, actionGroup)
    /\ PushSnapshot(actionGroup,
                    Relaxed(applyActions(projected.accounts, actionGroup, <<>>)))

\* Lines 319-323: project to the group's timestamp, apply it, relax, push
ApplyActionGroup ==
  /\ \E t \in GroupTimestamps :
       /\ ~HasIntermediate(state, t)
       /\ ApplyOneOf(ActionGroups(t), projectLinear(state, t))
       /\ targetTimestamp' = t
  /\ processed' = processed + 1
  /\ UNCHANGED <<inputActions, returned, relaxVars>>

\* Lines 326-328: after the last action group, one snapshot yielded by
\* computeIntermediateStates(state, Infinity)
FinalIntermediate ==
  /\ pc \in {"loop", "final"}
  /\ HasIntermediate(state, Infinity)
  /\ state' = IntermediateState(state).state
  /\ pushed' = pushed + 1
  /\ pc' = "final"
  /\ targetTimestamp' = Infinity
  /\ UNCHANGED <<processed, injected, inputActions, returned, relaxVars>>

\* Line 329: the history is returned
Return ==
  /\ pc \in {"loop", "final"}
  /\ ~HasIntermediate(state, Infinity)
  /\ pc' = "done"
  /\ targetTimestamp' = Infinity
  /\ UNCHANGED <<state, pushed, processed, injected, inputActions, returned, relaxVars>>

Next ==
  \/ Intermediate
  \/ ApplyActionGroup
  \/ FinalIntermediate
  \/ Return

Spec == Init /\ [][Next]_vars

(***************************************************************************)
(* computeFinancialHistory as a function of its argument, lines 304-330:   *)
(* the same loop as above, run from the first line to the last on a given  *)
(* list of action groups, so that the returned list can be looked at as a  *)
(* whole                                                                   *)
(***************************************************************************)
\* A faulty insertion: a group goes in front of the groups of its timestamp
RECURSIVE InsertBeforeEqual(_, _)
InsertBeforeEqual(sorted, actionGroup) ==
  IF sorted = <<>> THEN <<actionGroup>>
  ELSE IF RLe(actionGroup.timestamp, Head(sorted).timestamp)
       THEN <<actionGroup>> \o sorted
       ELSE <<Head(sorted)>> \o InsertBeforeEqual(Tail(sorted), actionGroup)

\* One step of the stable sort: the group goes behind every group whose
\* timestamp is not greater than its own
RECURSIVE InsertSorted(_, _)
InsertSorted(sorted, actionGroup) ==
  IF sorted = <<>> THEN <<actionGroup>>
  ELSE IF RLt(actionGroup.timestamp, Head(sorted).timestamp)
       THEN <<actionGroup>> \o sorted
       ELSE <<Head(sorted)>> \o InsertSorted(Tail(sorted), actionGroup)

RECURSIVE SortFrom(_, _)
SortFrom(sorted, rest) ==
  IF rest = <<>> THEN sorted
  ELSE SortFrom(InsertSorted(sorted, Head(rest)), Tail(rest))

\* A faulty sortBy: the list is left in the order of the input
sortByInputOrder(actions) == actions

\* Line 308: _.sortBy(actions, 'timestamp'), a stable ascending sort
sortBy(actions) == SortFrom(<<>>, actions)

NoError == "none"

\* The Error of line 427
NotImplemented == "not implemented"

\* What reading .reduce of an undefined property throws (line 502)
TypeError == "TypeError"

\* The locals of the call: state, the history list, for every entry of the
\* list whether it is the snapshot of an action group or of a nonlinearity
\* (bookkeeping), and the error thrown, if any
Run(snapshot, snapshots, origins) ==
  [state |-> snapshot, history |-> snapshots, origins |-> origins, error |-> NoError]

Failed(run, error) == [run EXCEPT !.error = error]

\* Lines 332-347 with the loops that consume the generator (315-318 and
\* 326-328): every snapshot it yields is pushed
RECURSIVE computeIntermediateStates(_, _)
Yield(run, target, intermediate) ==
  IF intermediate.threw THEN Failed(run, TypeError)
  ELSE computeIntermediateStates(
         Run(intermediate.state,
             Append(run.history, intermediate.state),
             Append(run.origins, "nonlinearity")),
         target)

\* A faulty scan: nothing is looked for between the action groups
computeNoIntermediateStates(run, target) == run

computeIntermediateStates(run, target) ==
  IF HasIntermediate(run.state, target)
  THEN Yield(run, target, IntermediateState(run.state))
  ELSE run

\* Lines 312-324, the for loop over the sorted action groups, and 326-328
RECURSIVE ForEachActionGroup(_, _)
\* Line 323: relaxed is the result of line 322
PushActionGroup(run, sorted, relaxed) ==
  IF relaxed.threw THEN Failed(run, TypeError)
  ELSE ForEachActionGroup(
         Run(HistorySnapshot(Head(sorted).timestamp, relaxed.accounts),
             Append(run.history,
                    HistorySnapshot(Head(sorted).timestamp, relaxed.accounts)),
             Append(run.origins, "batch")),
         Tail(sorted))

\* A faulty loop body: relaxation runs after every action of the group
RECURSIVE RelaxedAfterEach(_, _)
RelaxedAfterEach(accounts, actions) ==
  IF actions = <<>> THEN Applied(accounts, <<>>)
  ELSE LET applied == dispatchAction(accounts, Head(actions), <<>>)
           relaxed == updateTransients(applied.accounts, applied.dirtyAccounts)
       IN  IF relaxed.threw THEN relaxed
           ELSE RelaxedAfterEach(relaxed.accounts, Tail(actions))

RelaxAfterEveryAction(run, sorted, applied) ==
  IF applied.threw THEN Failed(run, NotImplemented)
  ELSE PushActionGroup(run, sorted,
         RelaxedAfterEach(projectLinear(run.state, Head(sorted).timestamp).accounts,
                          Head(sorted).actions))

\* Line 322: applied is the result of line 321
RelaxActionGroup(run, sorted, applied) ==
  IF applied.threw THEN Failed(run, NotImplemented)
  ELSE PushActionGroup(run, sorted,
                       updateTransients(applied.accounts, applied.dirtyAccounts))

\* Lines 319-321: run is the result of lines 315-318
ProjectAndApply(run, sorted) ==
  IF run.error # NoError THEN run
  ELSE RelaxActionGroup(run, sorted,
         applyActions(projectLinear(run.state, Head(sorted).timestamp).accounts,
                      Head(sorted), <<>>))

\* A faulty loop: the scan after the last action group is left out
ForEachWithoutFinalScan(run, sorted) ==
  IF sorted = <<>> THEN run
  ELSE ProjectAndApply(computeIntermediateStates(run, Head(sorted).timestamp), sorted)

ForEachActionGroup(run, sorted) ==
  IF sorted = <<>> THEN computeIntermediateStates(run, Infinity)
  ELSE ProjectAndApply(computeIntermediateStates(run, Head(sorted).timestamp), sorted)

\* What the caller gets: the list, or the error that was thrown
Threw(error) == [outcome |-> "threw", error |-> error]

Returns(snapshots, origins) ==
  [outcome |-> "returned", history |-> snapshots, origins |-> origins]

Outcome(run) ==
  IF run.error = NoError THEN Returns(run.history, run.origins) ELSE Threw(run.error)

computeFinancialHistory(actions) ==
  Outcome(ForEachActionGroup(Run(HistorySnapshot(NegInfinity, noAccounts), <<>>, <<>>),
                             sortBy(actions)))

(***************************************************************************)
(* The calls that are looked at: the action groups of the test suites      *)
(* (src/unnamed/part_001 and src/test/ice-tray.spec.ts) and variants of    *)
(* them, in any order                                                      *)
(***************************************************************************)
MaxInput == 3

ActionGroup(timestamp, actions) == [timestamp |-> Num(timestamp), actions |-> actions]

NewAccount ==
  ActionGroup(10, <<CreateOrUpdateAccount("a", TRUE, Num(12), TRUE, Undefined)>>)

InjectSix == ActionGroup(15, <<InjectMoney("a", Num(6))>>)

InjectPastCapacity == ActionGroup(20, <<InjectMoney("a", Num(9))>>)

AddOverflowActions ==
  <<CreateOrUpdateAccount("a", FALSE, Zero, TRUE, "b"),
    CreateOrUpdateAccount("b", FALSE, Zero, FALSE, Undefined)>>

\* src/test/ice-tray.spec.ts: at the timestamp of the injection before it
AddOverflow == ActionGroup(20, AddOverflowActions)

\* src/unnamed/part_001
OverflowOnAddition == ActionGroup(22, AddOverflowActions)

OverflowOnInjection == ActionGroup(25, <<InjectMoney("a", Num(100))>>)

Drains ==
  ActionGroup(30, <<CreateOrUpdateAccount("c", FALSE, Zero, FALSE, Undefined),
                    UpdateDrain("a", "c", Num(3))>>)

TestSuite ==
  <<NewAccount, InjectSix, InjectPastCapacity, OverflowOnAddition,
    OverflowOnInjection, Drains>>

SpecSuite == <<NewAccount, InjectSix, InjectPastCapacity, AddOverflow>>

\* Variants: an account that is full from its first batch on, money put in
\* and taken out again within one batch, an account filled by a drain, the
\* unsupported action, and actions on ids no action has created
FullAccount ==
  ActionGroup(12, <<CreateOrUpdateAccount("a", TRUE, Num(12), TRUE, "b"),
                    InjectMoney("a", Num(12))>>)

InAndOut == ActionGroup(27, <<InjectMoney("a", Num(5)), InjectMoney("a", Num(-5))>>)

FillByDrain ==
  ActionGroup(16, <<CreateOrUpdateAccount("c", TRUE, Num(3), FALSE, Undefined),
                    UpdateDrain("a", "c", Num(3))>>)

Unsupported == ActionGroup(26, <<DeleteAccount("a")>>)

DrainToUnknown == ActionGroup(17, <<UpdateDrain("a", "d", Num(3))>>)

DeleteUnknownDrain == ActionGroup(18, <<DeleteDrain("e", "a")>>)

InjectUnknown == ActionGroup(34, <<InjectMoney("f", Num(1))>>)

OverflowToUnknown ==
  ActionGroup(21, <<CreateOrUpdateAccount("a", TRUE, Num(12), TRUE, "g")>>)

\* The overflow target of a gets a capacity and an overflow target of its own
Cascade == ActionGroup(23, <<CreateOrUpdateAccount("b", TRUE, Num(50), TRUE, "c")>>)

LowerCapacity ==
  ActionGroup(24, <<CreateOrUpdateAccount("a", TRUE, Num(5), FALSE, Undefined)>>)

Pool ==
  <<NewAccount, InjectSix, InjectPastCapacity, AddOverflow, OverflowOnAddition,
    OverflowOnInjection, Drains, FullAccount, InAndOut, FillByDrain, Unsupported,
    DrainToUnknown, DeleteUnknownDrain, InjectUnknown, OverflowToUnknown,
    Cascade, LowerCapacity>>

Injective(f) == \A i, j \in DOMAIN f : f[i] = f[j] => i = j

\* Up to MaxInput different groups of the pool, in any order
Arrangements ==
  UNION {{f \in [1..n -> DOMAIN Pool] : Injective(f)} : n \in 0..MaxInput}

Prefixes(suite) == {SubSeq(suite, 1, n) : n \in 0..Len(suite)}

Inputs ==
  {[i \in DOMAIN f |-> Pool[f[i]]] : f \in Arrangements}
  \cup Prefixes(TestSuite) \cup Prefixes(SpecSuite)

InitCall ==
  /\ pc = "call"
  /\ state = HistorySnapshot(NegInfinity, noAccounts)
  /\ targetTimestamp = NegInfinity
  /\ pushed = 0
  /\ processed = 0
  /\ injected = Zero
  /\ inputActions \in Inputs
  /\ returned = NotCalled
  /\ relaxing = NotRelaxing
  /\ pops = 0
  /\ given = NotRelaxing

Call ==
  /\ pc = "call"
  /\ returned' = computeFinancialHistory(inputActions)
  /\ pc' = returned'.outcome
  /\ UNCHANGED <<state, targetTimestamp, pushed, processed, injected, inputActions,
               relaxVars>>

NextCall == Call

SpecCall == InitCall /\ [][NextCall]_vars

(***************************************************************************)
(* Properties of the snapshots of the history                              *)
(***************************************************************************)
Snapshots == {history[i] : i \in DOMAIN history}

Ids(snapshot) == DOMAIN snapshot.accounts.val

Account(snapshot, id) == MapGet(snapshot.accounts, id, emptyAccount)

\* The rate of a map entry, an absent entry counting as 0
RateOf(m, k) == MapGet(m, k, Zero)

InflowRate(account) == RAdd(MapSum(account.drainInflows), MapSum(account.overflowInflows))

HasDrain(account) == \E t \in DOMAIN account.drainSizes.val : account.drainSizes.val[t] # Zero

DrainsAtFullRate(account) ==
  \A t \in DOMAIN account.drainSizes.val :
    RateOf(account.drainEffectiveRates, t) = account.drainSizes.val[t]

RECURSIVE FillOver(_, _)
FillOver(accounts, keys) ==
  IF keys = <<>> THEN Zero
  ELSE RAdd(accounts.val[Head(keys)].fillLevel, FillOver(accounts, Tail(keys)))

TotalFill(snapshot) == FillOver(snapshot.accounts, snapshot.accounts.keys)

\* C1: on well-formed inputs (Spec draws no other), every account of every
\* snapshot has a fill level of at least zero.
C1_NonNegative ==
  \A s \in Snapshots : \A id \in Ids(s) : RLe(Zero, Account(s, id).fillLevel)

\* C2: in every snapshot, an account with an overflow target holds at most
\* its capacity.
C2_CapacityBound ==
  \A s \in Snapshots : \A id \in Ids(s) :
    Account(s, id).overflowTargetId # Undefined
      => RLe(Account(s, id).fillLevel, Account(s, id).capacity)

\* C3: in every snapshot, the fill levels of all accounts sum to the amounts
\* injected so far.
C3_Conservation ==
  \A s \in Snapshots : TotalFill(s) = injected

\* The rate at which an account at capacity takes in more than its drains
\* can carry away
ExcessRate(account) == RSub(InflowRate(account), MapSum(account.drainSizes))

Saturated(account) ==
  /\ account.overflowTargetId # Undefined
  /\ account.fillLevel = account.capacity
  /\ RLt(Zero, ExcessRate(account))

\* C4: from a snapshot in which an account at capacity takes in more than it
\* drains, to the next snapshot yielded by the scanner (no action in between),
\* the fill level of its overflow target grows by at least the excess rate
\* times the elapsed time, unless the target is itself at its capacity with
\* an overflow target.  The target is taken to have no drains of its own.
C4_OverflowForwarded ==
  [][(pushed' = pushed + 1 /\ processed' = processed) =>
       \A id \in Ids(state) :
         LET account == Account(state, id)
             target  == Account(state, account.overflowTargetId)
             target2 == Account(state', account.overflowTargetId)
             elapsed == RSub(state'.timestamp, state.timestamp)
         IN  (Saturated(account) /\ ~HasDrain(target))
               => \/ RLe(RAdd(target.fillLevel, RMul(ExcessRate(account), elapsed)),
                         target2.fillLevel)
                  \/ /\ target2.overflowTargetId # Undefined
                     /\ target2.fillLevel = target2.capacity]_vars

\* C5: in every snapshot, the overflowInflows entry an overflow target holds
\* for a source equals the overflowRate of that source.
C5_OverflowConsistency ==
  \A s \in Snapshots : \A id \in Ids(s) :
    LET account == Account(s, id)
    IN  account.overflowTargetId # Undefined
          => RateOf(Account(s, account.overflowTargetId).overflowInflows, id)
               = account.overflowRate

\* C6: in every snapshot, the drainInflows entry a drain target holds for a
\* source equals the effective rate of that drain on the source.
C6_DrainConsistency ==
  \A s \in Snapshots : \A id \in Ids(s) :
    \A t \in DOMAIN Account(s, id).drainSizes.val :
      RateOf(Account(s, t).drainInflows, id)
        = RateOf(Account(s, id).drainEffectiveRates, t)

\* A drain that is limited by the inflow of its source runs at a positive
\* rate below its size, and its target holds that rate for the source
C6_Witness ==
  \E s \in Snapshots : \E id \in Ids(s) :
    \E t \in DOMAIN Account(s, id).drainSizes.val :
      LET effectiveRate == RateOf(Account(s, id).drainEffectiveRates, t)
      IN  /\ RLt(Zero, effectiveRate)
          /\ RLt(effectiveRate, Account(s, id).drainSizes.val[t])
          /\ RateOf(Account(s, t).drainInflows, id) = effectiveRate

\* C7: in every snapshot, no drain runs faster than its configured size.
C7_EffectiveAtMostSize ==
  \A s \in Snapshots : \A id \in Ids(s) :
    \A t \in DOMAIN Account(s, id).drainSizes.val :
      RLe(RateOf(Account(s, id).drainEffectiveRates, t), Account(s, id).drainSizes.val[t])

\* A drain that has run is deleted while its source still holds money: its
\* size is 0 and its effective rate has followed
C7_Witness ==
  \E s \in Snapshots : \E id \in Ids(s) :
    \E t \in DOMAIN Account(s, id).drainSizes.val :
      /\ Account(s, id).drainSizes.val[t] = Zero
      /\ MapHas(Account(s, id).drainEffectiveRates, t)
      /\ Account(s, id).drainEffectiveRates.val[t] = Zero
      /\ RLt(Zero, Account(s, id).fillLevel)

\* C8: in every snapshot, an account with a positive overflowRate has all
\* its drains at their full configured rate.
C8_DrainsBeforeOverflow ==
  \A s \in Snapshots : \A id \in Ids(s) :
    RLt(Zero, Account(s, id).overflowRate) => DrainsAtFullRate(Account(s, id))

\* An account overflows while it has a drain, and the drain runs at its size
C8_Witness ==
  \E s \in Snapshots : \E id \in Ids(s) :
    /\ RLt(Zero, Account(s, id).overflowRate)
    /\ HasDrain(Account(s, id))
    /\ DrainsAtFullRate(Account(s, id))

\* C9: in every snapshot, an account with a positive fill level has all its
\* drains at their full configured rate.
C9_FullRateWithBalance ==
  \A s \in Snapshots : \A id \in Ids(s) :
    RLt(Zero, Account(s, id).fillLevel) => DrainsAtFullRate(Account(s, id))

\* An account with a balance and less inflow than its drains take runs its
\* drains at their sizes
C9_Witness ==
  \E s \in Snapshots : \E id \in Ids(s) :
    /\ RLt(Zero, Account(s, id).fillLevel)
    /\ HasDrain(Account(s, id))
    /\ RLt(InflowRate(Account(s, id)), MapSum(Account(s, id).drainSizes))
    /\ DrainsAtFullRate(Account(s, id))

\* An empty account whose inflow is smaller than the sum of its drain sizes
InflowLimited(account) ==
  /\ account.fillLevel = Zero
  /\ RLt(InflowRate(account), MapSum(account.drainSizes))

\* C10: in every snapshot, each drain of an empty account whose inflow is
\* smaller than the sum of its drain sizes runs at
\* inflow * size / (sum of the sizes).
C10_ProportionalShare ==
  \A s \in Snapshots : \A id \in Ids(s) :
    LET account == Account(s, id)
    IN  InflowLimited(account) =>
          \A t \in DOMAIN account.drainSizes.val :
            RateOf(account.drainEffectiveRates, t)
              = RDiv(RMul(InflowRate(account), account.drainSizes.val[t]),
                     MapSum(account.drainSizes))

(***************************************************************************)
(* Properties of the list a call returns                                   *)
(***************************************************************************)
TimestampAt(i) == returned.history[i].timestamp

\* Two action groups of the input carry the timestamp
SharedByGroups(timestamp) ==
  \E i, j \in DOMAIN inputActions :
    /\ i # j
    /\ inputActions[i].timestamp = timestamp
    /\ inputActions[j].timestamp = timestamp

\* The snapshot of a nonlinearity followed by the snapshot of an action group
NonlinearityThenGroup(i) ==
  returned.origins[i] = "nonlinearity" /\ returned.origins[i + 1] = "batch"

\* C11 as claimed: the timestamps of the returned history are strictly
\* increasing, and two consecutive snapshots share a timestamp only where the
\* snapshot of a nonlinearity is followed by the snapshot of an action group
\* of the same timestamp.
C11_StrictlyIncreasing ==
  returned.outcome = "returned" =>
    \A i \in 1..(Len(returned.history) - 1) :
      \/ RLt(TimestampAt(i), TimestampAt(i + 1))
      \/ TimestampAt(i) = TimestampAt(i + 1) /\ NonlinearityThenGroup(i)

\* C11, amended: the timestamps of the returned history never decrease, and
\* two consecutive snapshots share a timestamp only where the later one is the
\* snapshot of an action group whose timestamp coincides with a nonlinearity
\* or with the timestamp of another action group, the earlier one then being
\* the snapshot of that group.
C11_NonDecreasing ==
  returned.outcome = "returned" =>
    \A i \in 1..(Len(returned.history) - 1) :
      \/ RLt(TimestampAt(i), TimestampAt(i + 1))
      \/ /\ TimestampAt(i) = TimestampAt(i + 1)
         /\ \/ NonlinearityThenGroup(i)
            \/ /\ returned.origins[i] = "batch"
               /\ returned.origins[i + 1] = "batch"
               /\ SharedByGroups(TimestampAt(i))

\* A returned history with two consecutive snapshots of one timestamp
C11_Witness ==
  /\ returned.outcome = "returned"
  /\ \E i \in 1..(Len(returned.history) - 1) : TimestampAt(i) = TimestampAt(i + 1)

\* The state the snapshot at position i was computed from
StateBefore(i) ==
  IF i = 1 THEN HistorySnapshot(NegInfinity, noAccounts) ELSE returned.history[i - 1]

\* The positions of the snapshots of action groups, in the order of the list
GroupPositions == {i \in DOMAIN returned.history : returned.origins[i] = "batch"}

\* How many snapshots of action groups the list has up to position i
GroupsUpTo(i) == Cardinality({j \in GroupPositions : j <= i})

\* The time of the next crossing the scanner reports for a snapshot
NextCrossing(snapshot) == calculateNextNonlinearities(snapshot).timestamp

\* The timestamp of the snapshot after position i, Infinity after the last
TimestampAfter(i) ==
  IF i = Len(returned.history) THEN Infinity ELSE TimestampAt(i + 1)

LastGroupPosition == CHOOSE i \in GroupPositions : \A j \in GroupPositions : j <= i

\* After the last action group the account holds 12 and is being drained at
\* rate 3, having no inflow
DrainedFromTwelve(id) ==
  /\ GroupPositions # {}
  /\ MapHas(returned.history[LastGroupPosition].accounts, id)
  /\ LET account == returned.history[LastGroupPosition].accounts.val[id]
     IN  /\ account.isRecord
         /\ account.fillLevel = Num(12)
         /\ account.fillRate = Num(-3)
         /\ MapSum(account.drainEffectiveRates) = Num(3)
         /\ InflowRate(account) = Zero

AccountAt(i, id) == returned.history[i].accounts.val[id]

\* The targets of the drains of an account that have a rate
DrainTargets(account) ==
  {t \in DOMAIN account.drainSizes.val : account.drainSizes.val[t] # Zero}

\* The moment a balance of fillLevel is used up at the rate maxRate
EmptyAt(i, source, target) ==
  RAdd(TimestampAt(i),
       RDiv(AccountAt(i, source).fillLevel, AccountAt(i, source).drainSizes.val[target]))

\* The case of C14 at the snapshot of an action group: source holds money, has
\* no inflow, an overflow target and target as its only drain; target has no
\* overflow target, no capacity above its balance, no drain and no inflow
\* other than from source; every other account is at rest; and no later
\* action group comes before the moment source is empty
DrainCase(i, source, target) ==
  /\ source # target
  /\ AccountAt(i, source).isRecord /\ AccountAt(i, target).isRecord
  /\ RLt(Zero, AccountAt(i, source).fillLevel)
  /\ InflowRate(AccountAt(i, source)) = Zero
  /\ AccountAt(i, source).overflowTargetId # Undefined
  /\ DrainTargets(AccountAt(i, source)) = {target}
  /\ RLt(Zero, AccountAt(i, source).drainSizes.val[target])
  /\ AccountAt(i, target).overflowTargetId = Undefined
  /\ RLe(AccountAt(i, target).capacity, AccountAt(i, target).fillLevel)
  /\ DrainTargets(AccountAt(i, target)) = {}
  /\ \A other \in DOMAIN AccountAt(i, target).drainInflows.val :
       other # source => AccountAt(i, target).drainInflows.val[other] = Zero
  /\ MapSum(AccountAt(i, target).overflowInflows) = Zero
  /\ \A other \in Ids(returned.history[i]) \ {source, target} :
       AccountAt(i, other).isRecord /\ AccountAt(i, other).fillRate = Zero
  /\ \A k \in GroupPositions :
       k > i => ~RLt(TimestampAt(k), EmptyAt(i, source, target))

\* C14: in the case above, with L the balance of source and r the rate of
\* its drain, the snapshot of the action group has source.fillRate = -r,
\* the effective rate of the drain = r, target.fillRate = r and the drain
\* inflow of target from source = r; the next snapshot is at t + L/r, and in
\* it source has fillLevel 0, fillRate 0 and effective drain rate 0, and
\* target has L more than before and fillRate 0.
C14_DrainTiming ==
  returned.outcome = "returned" =>
    \A i \in GroupPositions :
      \A source, target \in Ids(returned.history[i]) :
        DrainCase(i, source, target) =>
          /\ AccountAt(i, source).fillRate = RNeg(AccountAt(i, source).drainSizes.val[target])
          /\ RateOf(AccountAt(i, source).drainEffectiveRates, target)
               = AccountAt(i, source).drainSizes.val[target]
          /\ AccountAt(i, target).fillRate = AccountAt(i, source).drainSizes.val[target]
          /\ RateOf(AccountAt(i, target).drainInflows, source)
               = AccountAt(i, source).drainSizes.val[target]
          /\ i < Len(returned.history)
          /\ TimestampAt(i + 1) = EmptyAt(i, source, target)
          /\ AccountAt(i + 1, source).fillLevel = Zero
          /\ AccountAt(i + 1, source).fillRate = Zero
          /\ RateOf(AccountAt(i + 1, source).drainEffectiveRates, target) = Zero
          /\ AccountAt(i + 1, target).fillLevel
               = RAdd(AccountAt(i, target).fillLevel, AccountAt(i, source).fillLevel)
          /\ AccountAt(i + 1, target).fillRate = Zero

\* The action group whose snapshot is at position i
GroupAt(i) == sortBy(inputActions)[GroupsUpTo(i)]

\* The accounts after the actions of the group at position i were applied,
\* before relaxation
BeforeRelaxation(i) ==
  applyActions(projectLinear(StateBefore(i), TimestampAt(i)).accounts,
               GroupAt(i), <<>>).accounts

\* The accounts the actions of a group name as their account
TouchedBy(actionGroup) ==
  {actionGroup.actions[n].accountId :
     n \in {k \in DOMAIN actionGroup.actions :
              actionGroup.actions[k].type \in {"InjectMoney", "CreateOrUpdateAccount"}}}

\* The account has an overflow target and holds more than its capacity
Overfull(accounts, id) ==
  /\ MapHas(accounts, id)
  /\ accounts.val[id].overflowTargetId # Undefined
  /\ RLt(accounts.val[id].capacity, accounts.val[id].fillLevel)

\* What the once-off spill is to do: the account keeps its capacity, the
\* excess goes to its overflow target, and so on down the chain
RECURSIVE SpillDown(_, _)
SpillDown(accounts, id) ==
  IF ~Overfull(accounts, id) THEN accounts
  ELSE LET account == accounts.val[id]
           target  == MapGet(accounts, account.overflowTargetId, emptyAccount)
       IN  SpillDown(
             MapSet(MapSet(accounts, id, [account EXCEPT !.fillLevel = account.capacity]),
                    account.overflowTargetId,
                    [target EXCEPT
                       !.fillLevel = RAdd(@, RSub(account.fillLevel, account.capacity))]),
             account.overflowTargetId)

FillLevelIn(accounts, id) == MapGet(accounts, id, emptyAccount).fillLevel

\* The one account the group at position i has left above its capacity
SpillsAt(i, id) ==
  /\ id \in TouchedBy(GroupAt(i))
  /\ Overfull(BeforeRelaxation(i), id)
  /\ \A other \in DOMAIN BeforeRelaxation(i).val :
       Overfull(BeforeRelaxation(i), other) => other = id

\* C15: in the snapshot of an action group that has left an account with an
\* overflow target above its capacity, by an injection, a lower capacity or a
\* new overflow target, the account holds exactly its capacity and the excess
\* has gone to the balance of its overflow target, and from there on down
\* the chain wherever a target has ended above its own capacity; no other
\* balance has changed.
C15_OnceOffSpill ==
  returned.outcome = "returned" =>
    \A i \in GroupPositions :
      \A id \in DOMAIN BeforeRelaxation(i).val :
        SpillsAt(i, id) =>
          /\ AccountAt(i, id).fillLevel = AccountAt(i, id).capacity
          /\ \A x \in Ids(returned.history[i]) :
               AccountAt(i, x).fillLevel
                 = FillLevelIn(SpillDown(BeforeRelaxation(i), id), x)

\* The overflow target of the account in the snapshot at position i
TargetAt(i, id) == AccountAt(i, id).overflowTargetId

\* An action group has left an account above its capacity, and its overflow
\* target has passed money on to an overflow target of its own
C15_Witness ==
  /\ returned.outcome = "returned"
  /\ \E i \in GroupPositions :
       \E id \in DOMAIN BeforeRelaxation(i).val :
         /\ SpillsAt(i, id)
         /\ TargetAt(i, id) \in Ids(returned.history[i])
         /\ TargetAt(i, TargetAt(i, id)) # Undefined
         /\ AccountAt(i, TargetAt(i, id)).fillLevel = AccountAt(i, TargetAt(i, id)).capacity
         /\ RLt(FillLevelIn(BeforeRelaxation(i), TargetAt(i, TargetAt(i, id))),
                FillLevelIn(returned.history[i].accounts, TargetAt(i, TargetAt(i, id))))

\* The sum of the amounts the InjectMoney actions of a list put into an account
RECURSIVE InjectedInto(_, _)
InjectedInto(actions, id) ==
  IF actions = <<>> THEN Zero
  ELSE RAdd(IF Head(actions).type = "InjectMoney" /\ Head(actions).accountId = id
            THEN Head(actions).amount ELSE Zero,
            InjectedInto(Tail(actions), id))

\* The accounts projected to the timestamp of the snapshot at position i,
\* before the action group is applied
ProjectedTo(i) == projectLinear(StateBefore(i), TimestampAt(i)).accounts

\* What flows into the account less what its drains take
NetInflow(account) == RSub(InflowRate(account), MapSum(account.drainEffectiveRates))

\* The account has no overflow target, holds its capacity or more, and more
\* flows into it than out of it
FillsPastCapacity(account) ==
  /\ account.isRecord
  /\ account.overflowTargetId = Undefined
  /\ RLe(account.capacity, account.fillLevel)
  /\ RLt(Zero, NetInflow(account))

\* No action of the group at position i names the account
Untouched(i, id) ==
  returned.origins[i] = "batch" => id \notin TouchedBy(GroupAt(i))

\* C16: an account without an overflow target is not limited by its
\* capacity.  An action group whose InjectMoney takes the balance of such an
\* account above its capacity leaves the whole sum in it, and no other balance
\* changes; and where more flows into such an account than out of it, its
\* fillRate is that positive difference although it holds its capacity or
\* more, and in the next snapshot its balance has grown by fillRate times
\* the time that has passed.
C16_CapacityWithoutOverflowTarget ==
  returned.outcome = "returned" =>
    /\ \A i \in GroupPositions :
         \A id \in DOMAIN BeforeRelaxation(i).val :
           ( /\ InjectedInto(GroupAt(i).actions, id) # Zero
             /\ BeforeRelaxation(i).val[id].overflowTargetId = Undefined
             /\ RLt(BeforeRelaxation(i).val[id].capacity,
                    BeforeRelaxation(i).val[id].fillLevel)
             /\ \A other \in DOMAIN BeforeRelaxation(i).val :
                  ~Overfull(BeforeRelaxation(i), other) ) =>
             /\ AccountAt(i, id).fillLevel
                  = RAdd(FillLevelIn(ProjectedTo(i), id),
                         InjectedInto(GroupAt(i).actions, id))
             /\ \A other \in Ids(returned.history[i]) \ {id} :
                  AccountAt(i, other).fillLevel
                    = RAdd(FillLevelIn(ProjectedTo(i), other),
                           InjectedInto(GroupAt(i).actions, other))
    /\ \A i \in DOMAIN returned.history :
         \A id \in Ids(returned.history[i]) :
           FillsPastCapacity(AccountAt(i, id)) =>
             /\ AccountAt(i, id).fillRate = NetInflow(AccountAt(i, id))
             /\ (i < Len(returned.history) /\ Untouched(i + 1, id)) =>
                  AccountAt(i + 1, id).fillLevel
                    = RAdd(AccountAt(i, id).fillLevel,
                           RMul(AccountAt(i, id).fillRate,
                                RSub(TimestampAt(i + 1), TimestampAt(i))))

\* An injection has taken an account without overflow target above its
\* capacity, and an account without overflow target that is being filled
\* holds more than its capacity
C16_Witness ==
  /\ returned.outcome = "returned"
  /\ \E i \in GroupPositions :
       \E id \in Ids(returned.history[i]) :
         /\ InjectedInto(GroupAt(i).actions, id) # Zero
         /\ AccountAt(i, id).overflowTargetId = Undefined
         /\ RLt(AccountAt(i, id).capacity, AccountAt(i, id).fillLevel)
  /\ \E i \in DOMAIN returned.history :
       \E id \in Ids(returned.history[i]) :
         /\ FillsPastCapacity(AccountAt(i, id))
         /\ RLt(AccountAt(i, id).capacity, AccountAt(i, id).fillLevel)
         /\ RLt(Zero, AccountAt(i, id).capacity)

\* Some action group of the input holds a DeleteAccount action
HasUnsupported(actionGroups) ==
  \E g \in DOMAIN actionGroups :
    \E n \in DOMAIN actionGroups[g].actions :
      actionGroups[g].actions[n].type = "DeleteAccount"

\* C17: a call whose input holds a DeleteAccount action in any action group
\* ends with the 'not implemented' error and returns no history, whatever
\* action groups come before or after that group.
C17_FailFast ==
  (pc # "call" /\ HasUnsupported(inputActions)) => returned = Threw(NotImplemented)

\* The account ids an action refers to
ReferencedIn(action) ==
  IF action.type = "CreateOrUpdateAccount"
  THEN {action.accountId}
       \cup (IF action.hasOverflowTargetId /\ action.overflowTargetId # Undefined
             THEN {action.overflowTargetId} ELSE {})
  ELSE IF action.type = "UpdateDrain"
  THEN {action.sourceAccountId, action.targetAccountId}
  ELSE IF action.type = "DeleteDrain" THEN {action.sourceAccountId}
  ELSE {action.accountId}

ReferencedBy(actionGroup) ==
  UNION {ReferencedIn(actionGroup.actions[n]) : n \in DOMAIN actionGroup.actions}

\* C18: a call without DeleteAccount actions returns a history whatever
\* account ids its actions refer to, and every account an action group
\* refers to, whether an earlier action has created it or not, is an account
\* record of the snapshot of that group.
C18_UnknownIdsAreCreated ==
  (pc # "call" /\ ~HasUnsupported(inputActions)) =>
    /\ returned.outcome = "returned"
    /\ \A i \in GroupPositions :
         \A id \in ReferencedBy(GroupAt(i)) :
           /\ id \in Ids(returned.history[i])
           /\ AccountAt(i, id).isRecord

\* The actions of a list applied one after the other, each to the accounts
\* the one before it has left, none of them followed by relaxation
RECURSIVE InListOrder(_, _)
InListOrder(accounts, actions) ==
  IF actions = <<>> THEN Applied(accounts, <<>>)
  ELSE dispatchAction(
         InListOrder(accounts, SubSeq(actions, 1, Len(actions) - 1)).accounts,
         actions[Len(actions)],
         InListOrder(accounts, SubSeq(actions, 1, Len(actions) - 1)).dirtyAccounts)

\* The group at position i puts an amount into an account that is at its
\* capacity and has an overflow target, and then takes the amount out again
InAndOutAtCapacity(i, id) ==
  /\ Len(GroupAt(i).actions) = 2
  /\ GroupAt(i).actions[1].type = "InjectMoney"
  /\ GroupAt(i).actions[2].type = "InjectMoney"
  /\ GroupAt(i).actions[1].accountId = id
  /\ GroupAt(i).actions[2].accountId = id
  /\ RLt(Zero, GroupAt(i).actions[1].amount)
  /\ GroupAt(i).actions[2].amount = RNeg(GroupAt(i).actions[1].amount)
  /\ MapHas(ProjectedTo(i), id)
  /\ ProjectedTo(i).val[id].overflowTargetId # Undefined
  /\ ProjectedTo(i).val[id].fillLevel = ProjectedTo(i).val[id].capacity

\* C19: the snapshot of an action group holds the accounts that relaxation,
\* run once, makes of the accounts the actions of the group leave when they
\* are applied in list order, each to the result of the one before; and a
\* group that puts an amount into an account at capacity with an overflow
\* target and takes it out again leaves the balances of the account and of
\* its overflow target as they were.
C19_GroupIsAtomic ==
  returned.outcome = "returned" =>
    \A i \in GroupPositions :
      /\ returned.history[i].accounts
           = updateTransients(
               InListOrder(ProjectedTo(i), GroupAt(i).actions).accounts,
               InListOrder(ProjectedTo(i), GroupAt(i).actions).dirtyAccounts).accounts
      /\ \A id \in Ids(returned.history[i]) :
           InAndOutAtCapacity(i, id) =>
             /\ AccountAt(i, id).fillLevel = FillLevelIn(ProjectedTo(i), id)
             /\ FillLevelIn(returned.history[i].accounts, TargetAt(i, id))
                  = FillLevelIn(ProjectedTo(i), TargetAt(i, id))

\* A group has put an amount into an account at capacity with an overflow
\* target and has taken it out again
C19_Witness ==
  /\ returned.outcome = "returned"
  /\ \E i \in GroupPositions :
       \E id \in Ids(returned.history[i]) : InAndOutAtCapacity(i, id)

\* The orders a list of n entries can be put in
IndexPermutations(n) == {f \in [1..n -> 1..n] : Injective(f)}

Reordered(actionGroups, f) == [k \in DOMAIN actionGroups |-> actionGroups[f[k]]]

DistinctTimestamps(actionGroups) ==
  \A i, j \in DOMAIN actionGroups :
    actionGroups[i].timestamp = actionGroups[j].timestamp => i = j

\* The order that is ascending in timestamp and, among the groups of one
\* timestamp, ascending in the position in the input
AscendingStable(actionGroups, f) ==
  \A k, l \in DOMAIN actionGroups :
    k < l =>
      \/ RLt(actionGroups[f[k]].timestamp, actionGroups[f[l]].timestamp)
      \/ /\ actionGroups[f[k]].timestamp = actionGroups[f[l]].timestamp
         /\ f[k] < f[l]

InTimestampOrder(actionGroups) ==
  Reordered(actionGroups,
            CHOOSE f \in IndexPermutations(Len(actionGroups)) :
              AscendingStable(actionGroups, f))

\* C20: what a call gives back is what the loop over the action groups makes
\* of them when they are taken in ascending order of timestamp, the groups
\* of one timestamp in the order of the input, each with a snapshot of its
\* own; and every reordering of an input of pairwise different timestamps
\* gives back the same.
C20_TimestampOrder ==
  pc # "call" =>
    /\ returned
         = Outcome(ForEachActionGroup(
                     Run(HistorySnapshot(NegInfinity, noAccounts), <<>>, <<>>),
                     InTimestampOrder(inputActions)))
    /\ returned.outcome = "returned" =>
         Cardinality(GroupPositions) = Len(inputActions)
    /\ DistinctTimestamps(inputActions) =>
         \A f \in IndexPermutations(Len(inputActions)) :
           computeFinancialHistory(Reordered(inputActions, f)) = returned

\* A call has returned whose input is not in ascending order of timestamp
\* and has two action groups of one timestamp, the order of which shows in
\* the history
C20_Witness ==
  /\ returned.outcome = "returned"
  /\ \E i, j \in DOMAIN inputActions :
       i < j /\ RLt(inputActions[j].timestamp, inputActions[i].timestamp)
  /\ \E i, j \in DOMAIN inputActions :
       /\ i < j
       /\ inputActions[i].timestamp = inputActions[j].timestamp
       /\ computeFinancialHistory(
            Reordered(inputActions,
                      [k \in DOMAIN inputActions |->
                         IF k = i THEN j ELSE IF k = j THEN i ELSE k]))
            # returned

(***************************************************************************)
(* Termination of the scan for nonlinearities                              *)
(***************************************************************************)
\* The most snapshots one scan is given to emit before it counts as endless
MaxScan == 6

\* The while loop of lines 335-346 run from a snapshot: whether it leaves the
\* loop after at most `steps` iterations
RECURSIVE ScanEndsWithin(_, _, _)
ScanEndsWithin(snapshot, target, steps) ==
  IF ~HasIntermediate(snapshot, target) THEN TRUE
  ELSE IF steps = 0 THEN FALSE
  ELSE ScanEndsWithin(IntermediateState(snapshot).state, target, steps - 1)

\* The number of snapshots the scan emits from a snapshot (at most `steps`)
RECURSIVE ScanLength(_, _, _)
ScanLength(snapshot, target, steps) ==
  IF steps = 0 \/ ~HasIntermediate(snapshot, target) THEN 0
  ELSE 1 + ScanLength(IntermediateState(snapshot).state, target, steps - 1)

SameMap(m, n) == m.val = n.val

SameAccount(x, y) ==
  /\ x.isRecord = y.isRecord
  /\ x.accountId = y.accountId
  /\ x.capacity = y.capacity
  /\ x.fillLevel = y.fillLevel
  /\ x.fillRate = y.fillRate
  /\ x.overflowTargetId = y.overflowTargetId
  /\ x.overflowRate = y.overflowRate
  /\ SameMap(x.drainSizes, y.drainSizes)
  /\ SameMap(x.drainEffectiveRates, y.drainEffectiveRates)
  /\ SameMap(x.drainInflows, y.drainInflows)
  /\ SameMap(x.overflowInflows, y.overflowInflows)

SameGraph(a, b) ==
  /\ DOMAIN a.val = DOMAIN b.val
  /\ \A id \in DOMAIN a.val : SameAccount(a.val[id], b.val[id])

\* updateTransients run with every account id of the graph in the dirty list
\* gives the graph back
FixedPoint(accounts, relaxed) ==
  ~relaxed.threw /\ SameGraph(relaxed.accounts, accounts)

SelfConsistent(snapshot) ==
  FixedPoint(snapshot.accounts,
             updateTransients(snapshot.accounts, snapshot.accounts.keys))

\* C22: every snapshot of the returned history is a fixed point of
\* relaxation: running updateTransients on its graph with every account id in
\* the dirty list returns a graph equal to it.
C22_SelfConsistent ==
  returned.outcome = "returned" =>
    \A i \in DOMAIN returned.history : SelfConsistent(returned.history[i])

(***************************************************************************)
(* Properties of the scan for nonlinearities                               *)
(***************************************************************************)
\* The crossings the scanner reports for the snapshot before position i
CrossingsBefore(i) == calculateNextNonlinearities(StateBefore(i)).accounts

\* The fill level a crossing forces onto its account, lines 388 and 397
Boundary(modifier, account) ==
  IF modifier = "full" THEN account.capacity ELSE Zero

\* The account sits at the boundary and relaxing it again changes nothing
Materialized(accounts, nonlinearity) ==
  /\ accounts.val[nonlinearity.accountId].fillLevel
       = Boundary(nonlinearity.modifier, accounts.val[nonlinearity.accountId])
  /\ FixedPoint(accounts, updateTransients(accounts, <<nonlinearity.accountId>>))

\* C23: a crossing whose time equals the timestamp of the next action group
\* is materialized before or with that group: in the snapshot of the group
\* every crossing account the group does not refer to has its fillLevel at
\* the boundary and its rates, and those of its dependants, relaxed again.
C23_CrossingAtTarget ==
  returned.outcome = "returned" =>
    \A i \in GroupPositions :
      NextCrossing(StateBefore(i)) = TimestampAt(i) =>
        \A n \in DOMAIN CrossingsBefore(i) :
          CrossingsBefore(i)[n].accountId \notin ReferencedBy(GroupAt(i)) =>
            Materialized(returned.history[i].accounts, CrossingsBefore(i)[n])

\* Lines 383-398 for one account: the moment it crosses a boundary at its
\* current rate, Infinity if it crosses none
CrossingTime(snapshot, id) ==
  IF FillsUp(snapshot.accounts.val[id])
  THEN RAdd(snapshot.timestamp,
            RDiv(RSub(snapshot.accounts.val[id].capacity,
                      snapshot.accounts.val[id].fillLevel),
                 snapshot.accounts.val[id].fillRate))
  ELSE IF Empties(snapshot.accounts.val[id])
  THEN RAdd(snapshot.timestamp,
            RDiv(snapshot.accounts.val[id].fillLevel,
                 RNeg(snapshot.accounts.val[id].fillRate)))
  ELSE Infinity

\* The accounts that cross a boundary at the earliest instant any account does
Tied(snapshot) ==
  {id \in Ids(snapshot) :
     /\ CrossingTime(snapshot, id) # Infinity
     /\ \A other \in Ids(snapshot) :
          RLe(CrossingTime(snapshot, id), CrossingTime(snapshot, other))}

\* The boundary the account is heading for: its capacity when it fills
BoundaryOf(account) ==
  IF FillsUp(account) THEN account.capacity ELSE Zero

\* The tied accounts in the order the scanner meets them (line 380)
TiedInOrder(snapshot) ==
  SelectSeq(snapshot.accounts.keys, LAMBDA id : id \in Tied(snapshot))

\* Lines 338-341: the fill level of each crossing account is set to its
\* boundary
RECURSIVE ForceBoundaries(_, _, _)
ForceBoundaries(accounts, before, crossing) ==
  IF crossing = <<>> THEN accounts
  ELSE ForceBoundaries(
         MapSet(accounts, Head(crossing),
                [accounts.val[Head(crossing)] EXCEPT
                   !.fillLevel = BoundaryOf(before.accounts.val[Head(crossing)])]),
         before, Tail(crossing))

\* Linear projection to the timestamp, the boundaries of the crossing
\* accounts, and relaxation from those accounts: nothing else
ProjectedForcedRelaxed(before, timestamp, crossing) ==
  updateTransients(
    ForceBoundaries(projectLinear(before, timestamp).accounts, before, crossing),
    crossing).accounts

\* What one iteration of the scan is to do with the snapshot it starts from
TieGrouped(before, after) ==
  /\ \A id \in Tied(before) :
       /\ after.timestamp = CrossingTime(before, id)
       /\ after.accounts.val[id].fillLevel = BoundaryOf(before.accounts.val[id])
       /\ FixedPoint(after.accounts, updateTransients(after.accounts, <<id>>))
  /\ SameGraph(after.accounts,
               ProjectedForcedRelaxed(before, after.timestamp, TiedInOrder(before)))
  /\ \A id \in Ids(after) : RLt(after.timestamp, CrossingTime(after, id))

\* C24: when several accounts cross a boundary at the same earliest instant
\* the scan emits one snapshot for that instant (the next crossing is later),
\* in which each of them has its fillLevel exactly on its boundary and is
\* relaxed again, and every other account is changed by linear projection
\* and relaxation only.
C24_TieGrouping ==
  HasIntermediate(state, Infinity) =>
    TieGrouped(state, IntermediateState(state).state)

\* A snapshot in which two accounts cross at the same earliest instant, and
\* the snapshot the scan emits for it
C24_Witness ==
  /\ Cardinality(Tied(state)) >= 2
  /\ HasIntermediate(state, Infinity)
  /\ TieGrouped(state, IntermediateState(state).state)

\* The account is on its way to a boundary: the conditions of lines 383, 392
Pending(account) ==
  \/ RLt(Zero, account.fillRate) /\ RLt(account.fillLevel, account.capacity)
  \/ RLt(account.fillRate, Zero) /\ RLt(Zero, account.fillLevel)

LastSnapshot == returned.history[Len(returned.history)]

MaxBuild == 2

\* The most action groups that are applied and relaxed one after the other
MaxRounds == 2

\* The most iterations the while loop is followed for
MaxPops == 12

ActionLists(n) == UNION {[1..k -> UserActions] : k \in 1..n}

\* The dirty lists over the accounts of the graph without a repetition
DirtyLists(accounts) ==
  UNION {{order \in [1..k -> DOMAIN accounts.val] : Injective(order)} :
           k \in 0..Cardinality(DOMAIN accounts.val)}

InitRelax ==
  /\ pc = "apply"
  /\ state = HistorySnapshot(NegInfinity, noAccounts)
  /\ targetTimestamp = NegInfinity
  /\ pushed = 0
  /\ processed = 0
  /\ injected = Zero
  /\ inputActions = <<>>
  /\ returned = NotCalled
  /\ relaxing = NotRelaxing
  /\ pops = 0
  /\ given = NotRelaxing

\* Line 322 is reached with the accounts line 321 returned; the dirty list is
\* the one applyActions filled or any list over the accounts
CallWith(applied) ==
  /\ ~applied.threw
  /\ \E dirty \in DirtyLists(applied.accounts) \cup {applied.dirtyAccounts} :
       /\ relaxing' = Applied(applied.accounts, dirty)
       /\ given' = Applied(applied.accounts, dirty)

\* Lines 321-322: an action group is applied to the relaxed accounts and
\* updateTransients is called
CallUpdateTransients ==
  /\ pc \in {"apply", "relaxed"}
  /\ processed < MaxRounds
  /\ \E actions \in ActionLists(IF processed = 0 THEN MaxBuild ELSE 1) :
       /\ WellFormed(relaxing.accounts, ActionGroup(0, actions))
       /\ CallWith(applyActions(relaxing.accounts, ActionGroup(0, actions), <<>>))
  /\ pc' = "relax"
  /\ pops' = 0
  /\ processed' = processed + 1
  /\ UNCHANGED <<state, targetTimestamp, pushed, injected, inputActions, returned>>

\* What one iteration of the loop leaves
Popped(r) ==
  /\ relaxing' = r
  /\ pc' = IF r.threw THEN "threw" ELSE "relax"

\* Lines 486-576: one iteration of while (dirtyAccounts.length)
PopDirty ==
  /\ pc = "relax"
  /\ relaxing.dirtyAccounts # <<>>
  /\ pops < MaxPops
  /\ Popped(UpdateTransientsOf(relaxing.accounts, relaxing.dirtyAccounts))
  /\ pops' = pops + 1
  /\ UNCHANGED <<state, targetTimestamp, pushed, processed, injected,
                 inputActions, returned, given>>

\* Lines 485 and 579: the dirty list is empty, the accounts are returned
ReturnAccounts ==
  /\ pc = "relax"
  /\ relaxing.dirtyAccounts = <<>>
  /\ pc' = "relaxed"
  /\ UNCHANGED <<state, targetTimestamp, pushed, processed, injected,
                 inputActions, returned, relaxVars>>

NextRelax ==
  \/ CallUpdateTransients
  \/ PopDirty
  \/ ReturnAccounts

SpecRelax == InitRelax /\ [][NextRelax]_vars

\* C26: relaxation terminates: from every acyclic graph and every dirty list
\* the while loop of updateTransients reaches an empty dirty list after
\* finitely many iterations (fewer than MaxPops here), accounts at capacity
\* that mark their overflow target dirty with a spill of zero included.
C26_RelaxationTerminates ==
  pc = "relax" => (relaxing.dirtyAccounts = <<>> \/ pops < MaxPops)

\* The account holds exactly its capacity and has an overflow target
AtCapacity(account) ==
  account.overflowTargetId # Undefined /\ account.fillLevel = account.capacity

\* A call that has returned after an account at capacity was popped: it has
\* marked its overflow target dirty with a spill of zero
C26_Witness ==
  /\ pc = "relaxed"
  /\ pops >= 3
  /\ \E n \in DOMAIN given.dirtyAccounts :
       /\ MapHas(given.accounts, given.dirtyAccounts[n])
       /\ AtCapacity(given.accounts.val[given.dirtyAccounts[n]])
       /\ given.accounts.val[given.dirtyAccounts[n]].overflowTargetId
            \notin {given.dirtyAccounts[k] : k \in DOMAIN given.dirtyAccounts}

\* The orders the entries of a dirty list can be taken in
Orderings(dirtyAccounts) ==
  {[i \in DOMAIN dirtyAccounts |-> dirtyAccounts[f[i]]] :
     f \in IndexPermutations(Len(dirtyAccounts))}

\* Two calls of updateTransients end the same way: both throw, or both return
\* and the graphs are equal
SameOutcome(r1, r2) ==
  /\ r1.threw = r2.threw
  /\ ~r1.threw => SameGraph(r1.accounts, r2.accounts)

OrderIndependent(accounts, dirtyAccounts) ==
  \A order \in Orderings(dirtyAccounts) :
    SameOutcome(updateTransients(accounts, order),
                updateTransients(accounts, dirtyAccounts))

\* C27: relaxation is order-independent: the graph updateTransients returns
\* is the same for every ordering of the dirty list it is called with, and
\* for every order in which the entries pending at any iteration are taken.
C27_OrderIndependent ==
  pc = "relax" => OrderIndependent(relaxing.accounts, relaxing.dirtyAccounts)

\* A call with two dirty accounts or more, one of which spills into another,
\* that has returned the graph every other ordering returns too
C27_Witness ==
  /\ pc = "relaxed"
  /\ Len(given.dirtyAccounts) >= 2
  /\ \E i, j \in DOMAIN given.dirtyAccounts :
       /\ i # j
       /\ Overfull(given.accounts, given.dirtyAccounts[i])
       /\ given.accounts.val[given.dirtyAccounts[i]].overflowTargetId
            = given.dirtyAccounts[j]
  /\ OrderIndependent(given.accounts, given.dirtyAccounts)
  /\ SameGraph(relaxing.accounts,
               updateTransients(given.accounts, given.dirtyAccounts).accounts)

\* C28: relaxation is idempotent: updateTransients run on an already relaxed
\* graph (one a call of updateTransients has returned) with an empty dirty
\* list returns a graph equal to its input.
C28_Idempotent ==
  pc = "relaxed" =>
    FixedPoint(relaxing.accounts, updateTransients(relaxing.accounts, <<>>))

\* A graph with a flow in it that a call of several iterations has returned
C28_Witness ==
  /\ pc = "relaxed"
  /\ pops >= 2
  /\ \E id \in DOMAIN relaxing.accounts.val :
       relaxing.accounts.val[id].fillRate # Zero
  /\ FixedPoint(relaxing.accounts, updateTransients(relaxing.accounts, <<>>))

(***************************************************************************)
(* Properties of single actions                                            *)
(***************************************************************************)
\* DeleteDrain{source, target} applied to the graph, with nothing dirty yet
DrainDeleted(accounts, source, target) ==
  deleteDrain(accounts, DeleteDrain(source, target), <<>>)

\* UpdateDrain{source, target, maxRate: 0} applied to the graph
DrainSetToZero(accounts, source, target) ==
  updateDrain(accounts, UpdateDrain(source, target, Zero), <<>>)

\* Two applied actions leave the same graph and the same dirty list, and
\* relaxation makes the same snapshot of them
SameEffect(r1, r2) ==
  /\ SameGraph(r1.accounts, r2.accounts)
  /\ r1.dirtyAccounts = r2.dirtyAccounts
  /\ SameOutcome(updateTransients(r1.accounts, r1.dirtyAccounts),
                 updateTransients(r2.accounts, r2.dirtyAccounts))

\* The drain entry is present with size 0
DrainOfZero(accounts, source, target) ==
  /\ MapHas(accounts, source)
  /\ MapHas(accounts.val[source].drainSizes, target)
  /\ accounts.val[source].drainSizes.val[target] = Zero

\* C29: DeleteDrain{source, target} is equivalent to UpdateDrain{source,
\* target, maxRate: 0} on every graph, one without the source account
\* included: both leave the same graph and the same dirty list, hence the
\* same snapshot, and the drain entry stays present with size 0.
C29_DeleteIsUpdateToZero ==
  pc \in {"apply", "relaxed"} =>
    \A source, target \in AccountIds :
      source # target =>
        /\ SameEffect(DrainDeleted(relaxing.accounts, source, target),
                      DrainSetToZero(relaxing.accounts, source, target))
        /\ DrainOfZero(DrainDeleted(relaxing.accounts, source, target).accounts,
                       source, target)

(***************************************************************************)
(* Properties of linear projection                                         *)
(***************************************************************************)
\* What projection by deltaTime makes of the fill level of an account
LevelAfter(account, deltaTime) ==
  IF account.fillRate = Zero THEN account.fillLevel
  ELSE RAdd(account.fillLevel, RMul(account.fillRate, deltaTime))

\* Everything of an account but its fill level is as it was
SameButLevel(x, y) == SameAccount([x EXCEPT !.fillLevel = y.fillLevel], y)

\* The projection of a snapshot to a timestamp changes the timestamp and the
\* fill levels of the accounts with a rate, and nothing else
OnlyLevelsMove(before, timestamp, after) ==
  /\ after.timestamp = timestamp
  /\ after.accounts.keys = before.accounts.keys
  /\ Ids(after) = Ids(before)
  /\ \A id \in Ids(before) :
       /\ SameButLevel(before.accounts.val[id], after.accounts.val[id])
       /\ after.accounts.val[id].fillLevel
            = LevelAfter(before.accounts.val[id],
                         RSub(timestamp, before.timestamp))

\* C30: linear projection to a timestamp T changes only the timestamp of the
\* snapshot and the fillLevel of the accounts with a non-zero fillRate, which
\* becomes fillLevel + fillRate * (T - snapshot.timestamp); every other field
\* of every account and the set of accounts are unchanged (projectLinear has
\* no dirty list to add to).  Checked for every projection a call makes: of
\* the snapshot before each snapshot of the history to the latter's timestamp.
C30_ProjectionFrame ==
  returned.outcome = "returned" =>
    \A i \in DOMAIN returned.history :
      OnlyLevelsMove(StateBefore(i), TimestampAt(i),
                     projectLinear(StateBefore(i), TimestampAt(i)))

\* A projection over a stretch of time that moved an account with a rate and
\* left another account as it was
C30_Witness ==
  /\ returned.outcome = "returned"
  /\ \E i \in DOMAIN returned.history :
       /\ i > 1
       /\ RLt(StateBefore(i).timestamp, TimestampAt(i))
       /\ \E x, y \in Ids(StateBefore(i)) :
            /\ StateBefore(i).accounts.val[x].fillRate # Zero
            /\ projectLinear(StateBefore(i), TimestampAt(i)).accounts.val[x].fillLevel
                 # StateBefore(i).accounts.val[x].fillLevel
            /\ StateBefore(i).accounts.val[y].fillRate = Zero
       /\ OnlyLevelsMove(StateBefore(i), TimestampAt(i),
                         projectLinear(StateBefore(i), TimestampAt(i)))

\* The CreateOrUpdateAccount actions a caller can send for the accounts: with
\* or without a capacity, with or without an overflowTargetId property, the
\* property possibly undefined
CreateActions ==
  {CreateOrUpdateAccount(id, hasCap, cap, hasTarget, target) :
     id \in AccountIds, hasCap \in BOOLEAN, cap \in Capacities,
     hasTarget \in BOOLEAN, target \in (AccountIds \cup {Undefined})}

\* The account the action finds: the stored one, or the defaults
Previous(accounts, id) == MapGet(accounts, id, emptyAccount)

\* What the action is to leave of the account it found
PartiallyUpdated(previous, action, account) ==
  SameAccount(account,
    [previous EXCEPT
       !.accountId = action.accountId,
       !.capacity = IF action.hasCapacity THEN action.capacity ELSE @,
       !.overflowTargetId =
          IF action.hasOverflowTargetId THEN action.overflowTargetId ELSE @])

\* C31: CreateOrUpdateAccount is a partial update: the capacity is
\* overwritten only when the action provides one, the overflow target only
\* when the action carries the property (undefined removes the target), and
\* fillLevel, drainSizes and every other field keep their previous values.
C31_PartialUpdate ==
  pc \in {"apply", "relaxed"} =>
    \A action \in CreateActions :
      PartiallyUpdated(
        Previous(relaxing.accounts, action.accountId), action,
        createOrUpdateAccount(relaxing.accounts, action, <<>>)
          .accounts.val[action.accountId])

\* An account with a balance and a drain whose capacity alone is updated
C31_Witness ==
  /\ pc = "relaxed"
  /\ \E action \in CreateActions :
       /\ action.hasCapacity /\ ~action.hasOverflowTargetId
       /\ MapHas(relaxing.accounts, action.accountId)
       /\ relaxing.accounts.val[action.accountId].fillLevel # Zero
       /\ relaxing.accounts.val[action.accountId].overflowTargetId # Undefined
       /\ relaxing.accounts.val[action.accountId].drainSizes.keys # <<>>
       /\ relaxing.accounts.val[action.accountId].capacity # action.capacity
       /\ PartiallyUpdated(
            Previous(relaxing.accounts, action.accountId), action,
            createOrUpdateAccount(relaxing.accounts, action, <<>>)
              .accounts.val[action.accountId])

(***************************************************************************)
(* Properties of every account of every snapshot                           *)
(***************************************************************************)
\* An overflow rate only with an overflow target and a fill level that equals
\* the capacity
OverflowsOnlyWhenFull(account) ==
  account.overflowRate # Zero =>
    /\ account.overflowTargetId # Undefined
    /\ account.fillLevel = account.capacity

\* C32: in every emitted snapshot an account has a non-zero overflowRate only
\* if it has an overflow target and its fillLevel equals its capacity.
C32_OverflowRateOnlyWhenFull ==
  \A id \in Ids(state) : OverflowsOnlyWhenFull(state.accounts.val[id])

\* A snapshot with an account that overflows at a rate
C32_Witness ==
  /\ pushed > 0
  /\ \E id \in Ids(state) :
       /\ state.accounts.val[id].overflowRate # Zero
       /\ OverflowsOnlyWhenFull(state.accounts.val[id])

(***************************************************************************)
(* Properties of a call with one more action group after the others        *)
(***************************************************************************)
\* An action group later than every group of the pool that takes more out of
\* account a than any input has put into it
Overdraft ==
  ActionGroup(40, <<InjectMoney("a", Num(-200))>>)

\* The call with the group added to its input
WithOverdraft == computeFinancialHistory(Append(inputActions, Overdraft))

\* The position of the snapshot of the group in what that call returned
OverdraftPosition(result) ==
  CHOOSE i \in DOMAIN result.history :
    result.origins[i] = "batch" /\ result.history[i].timestamp = Overdraft.timestamp

\* The balance the group found: that of the snapshot before it, projected
BalanceBefore(result, i, id) ==
  IF i = 1 THEN Zero
  ELSE MapGet(projectLinear(result.history[i - 1], result.history[i].timestamp).accounts,
              id, emptyAccount).fillLevel

\* The snapshot of the group holds the negative sum for the account
NegativeSum(result, i) ==
  /\ result.history[i].accounts.val["a"].fillLevel
       = RAdd(BalanceBefore(result, i, "a"), Num(-200))
  /\ RLt(result.history[i].accounts.val["a"].fillLevel, Zero)

\* C33: the engine neither clamps nor rejects a negative balance: a call
\* that returns still returns when an InjectMoney that takes more than the
\* balance of the account is added after its other groups, and the snapshot
\* of that group holds the negative sum as the fillLevel of the account.
C33_NoClamp ==
  returned.outcome = "returned" =>
    /\ WithOverdraft.outcome = "returned"
    /\ NegativeSum(WithOverdraft, OverdraftPosition(WithOverdraft))

\* A call whose account a holds a balance when the overdraft comes
C33_Witness ==
  /\ returned.outcome = "returned"
  /\ WithOverdraft.outcome = "returned"
  /\ RLt(Zero, BalanceBefore(WithOverdraft, OverdraftPosition(WithOverdraft), "a"))
  /\ NegativeSum(WithOverdraft, OverdraftPosition(WithOverdraft))

\* The InjectMoney and UpdateDrain actions a caller can send for the accounts
InjectActions == {InjectMoney(id, amount) : id \in AccountIds, amount \in Amounts}

DrainActions ==
  {UpdateDrain(source, target, rate) :
     source \in AccountIds, target \in AccountIds, rate \in Rates \cup {Zero}}

\* The action has stored one account, the one named id, and has appended it,
\* and nothing else, to the dirty list; every other account is as it was
OnlyTouches(accounts, id, applied, dirtyAccounts) ==
  /\ ~applied.threw
  /\ DOMAIN applied.accounts.val = DOMAIN accounts.val \cup {id}
  /\ \A other \in DOMAIN accounts.val \ {id} :
       SameAccount(applied.accounts.val[other], accounts.val[other])
  /\ applied.dirtyAccounts = Append(dirtyAccounts, id)

\* Lines 437-446: only the fill level, and the id of a new account, change
OnlyLevelChanged(previous, action, account) ==
  SameAccount(account,
    [previous EXCEPT !.accountId = action.accountId,
                     !.fillLevel = RAdd(@, action.amount)])

\* Lines 448-458: only the drain entry for the target, and the id of a new
\* account, change
OnlyDrainChanged(previous, action, account) ==
  /\ SameAccount([account EXCEPT !.drainSizes = previous.drainSizes],
                 [previous EXCEPT !.accountId = action.sourceAccountId])
  /\ DOMAIN account.drainSizes.val
       = DOMAIN previous.drainSizes.val \cup {action.targetAccountId}
  /\ \A target \in DOMAIN account.drainSizes.val :
       account.drainSizes.val[target]
         = IF target = action.targetAccountId THEN action.maxRate
           ELSE previous.drainSizes.val[target]

\* The dirty lists an action of a group can find: empty, or with entries
FoundDirty == {<<>>, <<"a">>, <<"c", "b">>}

\* C34: before relaxation, InjectMoney changes only the fillLevel (and, on
\* creation, the accountId) of the account it names and appends only that
\* account to the dirty list; UpdateDrain changes only the entry
\* drainSizes[target] (and, on creation, the accountId) of the source and
\* appends only the source; every other account and field is unchanged.
C34_SimpleActionsFrame ==
  pc \in {"apply", "relaxed"} =>
    \A dirty \in FoundDirty :
      /\ \A action \in InjectActions :
           /\ OnlyTouches(relaxing.accounts, action.accountId,
                          injectMoney(relaxing.accounts, action, dirty), dirty)
           /\ OnlyLevelChanged(
                Previous(relaxing.accounts, action.accountId), action,
                injectMoney(relaxing.accounts, action, dirty)
                  .accounts.val[action.accountId])
      /\ \A action \in DrainActions :
           /\ OnlyTouches(relaxing.accounts, action.sourceAccountId,
                          updateDrain(relaxing.accounts, action, dirty), dirty)
           /\ OnlyDrainChanged(
                Previous(relaxing.accounts, action.sourceAccountId), action,
                updateDrain(relaxing.accounts, action, dirty)
                  .accounts.val[action.sourceAccountId])

\* A graph in which an account with a drain gets a second one, and an
\* account with a balance gets an injection
C34_Witness ==
  /\ pc = "relaxed"
  /\ Cardinality(DOMAIN relaxing.accounts.val) >= 2
  /\ \E action \in DrainActions :
       /\ MapHas(relaxing.accounts, action.sourceAccountId)
       /\ relaxing.accounts.val[action.sourceAccountId].drainSizes.keys # <<>>
       /\ ~MapHas(relaxing.accounts.val[action.sourceAccountId].drainSizes,
                  action.targetAccountId)
       /\ MapHas(relaxing.accounts, action.targetAccountId)
       /\ OnlyTouches(relaxing.accounts, action.sourceAccountId,
                      updateDrain(relaxing.accounts, action, <<"a">>), <<"a">>)
  /\ \E action \in InjectActions :
       /\ MapHas(relaxing.accounts, action.accountId)
       /\ relaxing.accounts.val[action.accountId].fillLevel # Zero
       /\ OnlyLevelChanged(
            Previous(relaxing.accounts, action.accountId), action,
            injectMoney(relaxing.accounts, action, <<>>)
              .accounts.val[action.accountId])

\* The groups of the pool that are not earlier than any group of the input
LaterGroups ==
  {Pool[n] : n \in {k \in DOMAIN Pool :
                      \A i \in DOMAIN inputActions :
                        RLe(inputActions[i].timestamp, Pool[k].timestamp)}}

\* The call with a later group added to its input
FollowedBy(actionGroup) == computeFinancialHistory(Append(inputActions, actionGroup))

\* The positions of the returned history a later group at the timestamp
\* cannot reach: the snapshots of the groups and the earlier snapshots
Settled(timestamp) ==
  SelectSeq([i \in DOMAIN returned.history |-> i],
            LAMBDA i : \/ returned.origins[i] = "batch"
                       \/ RLt(TimestampAt(i), timestamp))

\* The other history starts with those snapshots, unchanged and in order
StartsWith(result, settled) ==
  /\ Len(settled) <= Len(result.history)
  /\ \A k \in DOMAIN settled :
       /\ result.history[k] = returned.history[settled[k]]
       /\ result.origins[k] = returned.origins[settled[k]]

\* C35: a later action group never alters an earlier snapshot: the history
\* of the input followed by a group that is not earlier than any of its
\* groups starts with the snapshots of the history of the input that are
\* snapshots of its groups or have a timestamp smaller than that of the
\* added group, unchanged and in the same order.
C35_Causality ==
  returned.outcome = "returned" =>
    \A actionGroup \in LaterGroups :
      FollowedBy(actionGroup).outcome = "returned" =>
        StartsWith(FollowedBy(actionGroup), Settled(actionGroup.timestamp))

\* A history with a snapshot of the final scan before the added group and
\* one after it: the first is kept, the second is not
C35_Witness ==
  /\ returned.outcome = "returned"
  /\ \E actionGroup \in LaterGroups :
       /\ FollowedBy(actionGroup).outcome = "returned"
       /\ \E i, j \in DOMAIN returned.history :
            /\ returned.origins[i] = "nonlinearity"
            /\ RLt(TimestampAt(i), actionGroup.timestamp)
            /\ returned.origins[j] = "nonlinearity"
            /\ RLt(actionGroup.timestamp, TimestampAt(j))
       /\ StartsWith(FollowedBy(actionGroup), Settled(actionGroup.timestamp))

\* What leaves the account and what it keeps against what enters it
RatesBalance(account) ==
  RAdd(RAdd(account.fillRate, account.overflowRate),
       MapSum(account.drainEffectiveRates))
    = RAdd(MapSum(account.drainInflows), MapSum(account.overflowInflows))

\* C36: in every emitted snapshot every account satisfies fillRate +
\* overflowRate + sum(drainEffectiveRates) = sum(drainInflows) +
\* sum(overflowInflows).
C36_LocalRateBalance ==
  \A id \in Ids(state) : RatesBalance(state.accounts.val[id])

\* A snapshot with an account that has an inflow, a drain that runs and a
\* fill rate, all in balance
C36_Witness ==
  \E id \in Ids(state) :
    /\ MapSum(state.accounts.val[id].drainInflows) # Zero
    /\ MapSum(state.accounts.val[id].drainEffectiveRates) # Zero
    /\ state.accounts.val[id].fillRate # Zero
    /\ RatesBalance(state.accounts.val[id])

\* The positions of the snapshots of action groups after position i
GroupsAfter(i) == {j \in GroupPositions : j > i}

\* The snapshot of a nonlinearity lies strictly between the snapshot before
\* it and the snapshot of every action group after it
StrictlyBetween(i) ==
  /\ i > 1 => RLt(TimestampAt(i - 1), TimestampAt(i))
  /\ \A j \in GroupsAfter(i) : RLt(TimestampAt(i), TimestampAt(j))

\* C37: for every input, in any order and with repeated timestamps, the
\* timestamps of the returned snapshots are non-decreasing, and every
\* snapshot of a nonlinearity has a timestamp strictly greater than that of
\* the snapshot before it and strictly smaller than that of the next action
\* group.
C37_MonotoneHistory ==
  returned.outcome = "returned" =>
    \A i \in DOMAIN returned.history :
      /\ i > 1 => RLe(TimestampAt(i - 1), TimestampAt(i))
      /\ returned.origins[i] = "nonlinearity" => StrictlyBetween(i)

\* An input out of order whose history has the snapshot of a nonlinearity
\* between the snapshots of two action groups
C37_Witness ==
  /\ returned.outcome = "returned"
  /\ \E m, n \in DOMAIN inputActions :
       m < n /\ RLt(inputActions[n].timestamp, inputActions[m].timestamp)
  /\ \E i \in DOMAIN returned.history :
       /\ returned.origins[i] = "nonlinearity"
       /\ i > 1
       /\ GroupsAfter(i) # {}
       /\ StrictlyBetween(i)

\* C38: in every emitted snapshot every account stored under a key has that
\* key as its accountId, the accounts that came into existence as the
\* overflow target of a once-off spill or as the target of a drain included.
C38_KeyConsistency ==
  returned.outcome = "returned" =>
    \A i \in DOMAIN returned.history : \A id \in Ids(returned.history[i]) :
      returned.history[i].accounts.val[id].accountId = id

(***************************************************************************)
(* Properties of one iteration of the loop of updateTransients             *)
(***************************************************************************)
\* The account the iteration works on, after its once-off overflow
Popping ==
  OnceOffOverflow(relaxing.accounts,
                  MapGet(relaxing.accounts, Head(relaxing.dirtyAccounts), emptyAccount),
                  Tail(relaxing.dirtyAccounts)).account

\* Lines 502-504: what flows into an account
InflowOf(account) ==
  RAdd(MapSum(account.drainInflows), MapSum(account.overflowInflows))

\* The iteration takes the branch of line 523 for an account with a drain
DividesInflow(account) ==
  /\ account.isRecord
  /\ account.drainSizes.keys # <<>>
  /\ ~RunDrainsAtFullCapacity(account, InflowOf(account), MapSum(account.drainSizes))

\* C39: whenever updateTransients takes the inflow-limited branch for an
\* account with at least one drain, the sum of its drainSizes is strictly
\* positive, so that inflow * size / total is defined (the drain sizes and
\* the inflow rates being non-negative).
C39_NoDivisionByZero ==
  (pc = "relax" /\ relaxing.dirtyAccounts # <<>> /\ DividesInflow(Popping)) =>
    RLt(Zero, MapSum(Popping.drainSizes))

\* An iteration that divides the inflow of an empty account among its drains
C39_Witness ==
  /\ pc = "relax"
  /\ relaxing.dirtyAccounts # <<>>
  /\ DividesInflow(Popping)
  /\ RLt(Zero, InflowOf(Popping))
  /\ RLt(Zero, MapSum(Popping.drainSizes))

====
